---- MODULE Spec2Model ----
(***************************************************************************)
(* A model of contraction_fix.fixer.ContractionFixer: the merged and the   *)
(* reverse table, the two lazily compiled matchers, the two lru caches,    *)
(* the mutation lock, and the threads that call fix / contract / preview / *)
(* add_contraction / remove_contraction on one engine.                     *)
(*                                                                         *)
(* A text is a sequence of one-character strings.                          *)
(***************************************************************************)
EXTENDS Integers, Sequences, FiniteSets, TLC

(***************************************************************************)
(* Characters (the part of Unicode the model's texts use), in code-point   *)
(* order, and Python's str predicates on them.                             *)
(***************************************************************************)
\* the typographic apostrophe, U+2019, written by its code point
Typographic == "U+2019"

CharOrder ==
  << " ", "'", ".", "/", "0", "1", "2", "3", "4", "5", "6", "7", "8", "9",
     "A", "B", "C", "D", "E", "F", "G", "H", "I", "J", "K", "L", "M",
     "N", "O", "P", "Q", "R", "S", "T", "U", "V", "W", "X", "Y", "Z", "_",
     "a", "b", "c", "d", "e", "f", "g", "h", "i", "j", "k", "l", "m",
     "n", "o", "p", "q", "r", "s", "t", "u", "v", "w", "x", "y", "z",
     Typographic >>

Chars == { CharOrder[i] : i \in DOMAIN CharOrder }

Code == [ c \in Chars |-> CHOOSE i \in DOMAIN CharOrder : CharOrder[i] = c ]

UpperChars == { CharOrder[i] : i \in 15..40 }

LowerChars == { CharOrder[i] : i \in 42..67 }

DigitChars == { CharOrder[i] : i \in 5..14 }

\* str.lower() on one character
LowerCh == [ c \in Chars |-> IF c \in UpperChars THEN CharOrder[Code[c] + 27] ELSE c ]

\* str.upper() on one character
UpperCh == [ c \in Chars |-> IF c \in LowerChars THEN CharOrder[Code[c] - 27] ELSE c ]

\* the regex class \w
IsWordCh(c) == c \in UpperChars \cup LowerChars \cup DigitChars \cup {"_"}

\* str.lower()
Lower(s) == [ i \in 1..Len(s) |-> LowerCh[s[i]] ]

\* str.upper()
Upper(s) == [ i \in 1..Len(s) |-> UpperCh[s[i]] ]

\* str.isupper(): no lower-case character and at least one upper-case one
IsUpper(s) ==
  /\ \A i \in 1..Len(s) : s[i] \notin LowerChars
  /\ \E i \in 1..Len(s) : s[i] \in UpperChars

\* str.capitalize(): first character upper-cased, all the others lower-cased
Capitalize(s) ==
  [ i \in 1..Len(s) |-> IF i = 1 THEN UpperCh[s[i]] ELSE LowerCh[s[i]] ]

\* str.replace(old, new) for one-character old and new
Replace(s, old, new) == [ i \in 1..Len(s) |-> IF s[i] = old THEN new ELSE s[i] ]

\* old in s, for a one-character old
Contains(s, c) == \E i \in 1..Len(s) : s[i] = c

\* s[a:b] with Python's 0-based half-open bounds
Slice(s, a, b) == IF b <= a THEN << >> ELSE SubSeq(s, a + 1, b)

\* str.endswith(suffix)
EndsWith(s, suffix) ==
  /\ Len(suffix) <= Len(s)
  /\ SubSeq(s, Len(s) - Len(suffix) + 1, Len(s)) = suffix

\* str.startswith(prefix)
StartsWith(s, prefix) ==
  /\ Len(prefix) <= Len(s)
  /\ SubSeq(s, 1, Len(prefix)) = prefix

\* s < t in Python's string order (code points, then length)
RECURSIVE StrLess(_, _)
StrLess(s, t) ==
  IF t = << >> THEN FALSE
  ELSE IF s = << >> THEN TRUE
  ELSE IF s[1] # t[1] THEN Code[s[1]] < Code[t[1]]
  ELSE StrLess(Tail(s), Tail(t))

\* a sort that puts the shortest key first
KeyBefore_ShortestFirst(a, b) ==
  \/ Len(a) < Len(b)
  \/ Len(a) = Len(b) /\ StrLess(a, b)

\* the sort key (-len(x), x) of pattern and reverse_pattern
KeyBefore(a, b) ==
  \/ Len(a) > Len(b)
  \/ Len(a) = Len(b) /\ StrLess(a, b)

\* sorted(keys, key=lambda x: (-len(x), x))
RECURSIVE SortedKeys(_)
SortedKeys(keys) ==
  IF keys = {} THEN << >>
  ELSE LET first == CHOOSE k \in keys : \A o \in keys \ {k} : KeyBefore(k, o)
       IN  << first >> \o SortedKeys(keys \ {first})

(***************************************************************************)
(* Class constants of ContractionFixer.                                    *)
(***************************************************************************)
CONTRACTION_BASES ==
  { <<"h", "e">>,
    <<"s", "h", "e">>,
    <<"i", "t">>,
    <<"w", "h", "a", "t">>,
    <<"w", "h", "o">>,
    <<"t", "h", "a", "t">>,
    <<"t", "h", "e", "r", "e">>,
    <<"h", "e", "r", "e">>,
    <<"w", "h", "e", "r", "e">>,
    <<"w", "h", "e", "n">>,
    <<"w", "h", "y">>,
    <<"h", "o", "w">>,
    <<"t", "h", "i", "s">>,
    <<"e", "v", "e", "r", "y", "o", "n", "e">>,
    <<"s", "o", "m", "e", "b", "o", "d", "y">>,
    <<"s", "o", "m", "e", "o", "n", "e">>,
    <<"s", "o", "m", "e", "t", "h", "i", "n", "g">>,
    <<"n", "o", "b", "o", "d", "y">>,
    <<"l", "e", "t">> }

TIME_WORDS ==
  { <<"t", "o", "d", "a", "y">>,
    <<"t", "o", "m", "o", "r", "r", "o", "w">>,
    <<"t", "o", "n", "i", "g", "h", "t">>,
    <<"m", "o", "r", "n", "i", "n", "g">>,
    <<"e", "v", "e", "n", "i", "n", "g">>,
    <<"a", "f", "t", "e", "r", "n", "o", "o", "n">>,
    <<"w", "e", "e", "k">>,
    <<"m", "o", "n", "t", "h">>,
    <<"y", "e", "a", "r">>,
    <<"c", "e", "n", "t", "u", "r", "y">>,
    <<"m", "o", "n", "d", "a", "y">>,
    <<"t", "u", "e", "s", "d", "a", "y">>,
    <<"w", "e", "d", "n", "e", "s", "d", "a", "y">>,
    <<"t", "h", "u", "r", "s", "d", "a", "y">>,
    <<"f", "r", "i", "d", "a", "y">>,
    <<"s", "a", "t", "u", "r", "d", "a", "y">>,
    <<"s", "u", "n", "d", "a", "y">> }

(***************************************************************************)
(* dict.get: a table is a function from keys to values.                    *)
(***************************************************************************)
Has(d, k) == k \in DOMAIN d

\* d[k] = v
Put(d, k, v) == [ x \in DOMAIN d \cup {k} |-> IF x = k THEN v ELSE d[x] ]

\* a pop that leaves the key in the table
Pop_Keep(d, k) == d

\* d.pop(k, None) / del d[k]
Pop(d, k) == [ x \in DOMAIN d \ {k} |-> d[x] ]

\* d.update(e)
Update(d, e) == [ x \in DOMAIN d \cup DOMAIN e |-> IF x \in DOMAIN e THEN e[x] ELSE d[x] ]

EmptyDict == [ x \in {} |-> << >> ]

(***************************************************************************)
(* The compiled matchers.  A matcher keeps the two alternations of         *)
(* pattern (apostrophe keys between (?<!\w) and (?!\w), plain keys         *)
(* between \b and \b), each in sorted order; reverse_pattern has the       *)
(* \b...\b alternation only.  valid = FALSE stands for None.               *)
(***************************************************************************)
NoPattern == [ valid |-> FALSE, apos |-> << >>, word |-> << >> ]

\* pattern, lines 163-185: the matcher compiled from a key set
CompilePattern(keys) ==
  [ valid |-> TRUE,
    apos  |-> SortedKeys({ k \in keys : Contains(k, "'") \/ Contains(k, "'") }),
    word  |-> SortedKeys({ k \in keys : ~ (Contains(k, "'") \/ Contains(k, "'")) }) ]

\* reverse_pattern, lines 195-199
CompileReversePattern(keys) ==
  [ valid |-> TRUE, apos |-> << >>, word |-> SortedKeys(keys) ]

\* the key set a matcher was compiled from
PatternKeys(pat) ==
  { pat.apos[i] : i \in DOMAIN pat.apos } \cup { pat.word[i] : i \in DOMAIN pat.word }

\* key k matches text at 0-based position pos, ignoring case (re.IGNORECASE)
KeyMatchesAt(k, text, pos) ==
  /\ pos + Len(k) <= Len(text)
  /\ Lower(Slice(text, pos, pos + Len(k))) = Lower(k)

\* a boundary that also holds at both ends of the text, whatever stands there
WordBoundary_AtTextEnds(text, pos) ==
  \/ pos = 0 \/ pos = Len(text)
  \/ (IsWordCh(text[pos]) # IsWordCh(text[pos + 1]))

\* a matcher without the \b assertions
WordBoundary_Anywhere(text, pos) == TRUE

\* \b at 0-based position pos
WordBoundary(text, pos) ==
  (pos > 0 /\ IsWordCh(text[pos])) # (pos < Len(text) /\ IsWordCh(text[pos + 1]))

\* (?<!\w) at pos and (?!\w) at end
NoWordAround(text, pos, end) ==
  /\ ~ (pos > 0 /\ IsWordCh(text[pos]))
  /\ ~ (end < Len(text) /\ IsWordCh(text[end + 1]))

\* index of the first apostrophe alternative that matches at pos, 0 if none
FirstApos(pat, text, pos) ==
  LET ok == { i \in DOMAIN pat.apos :
                /\ KeyMatchesAt(pat.apos[i], text, pos)
                /\ NoWordAround(text, pos, pos + Len(pat.apos[i])) }
  IN  IF ok = {} THEN 0 ELSE CHOOSE i \in ok : \A j \in ok : i <= j

\* index of the first plain alternative that matches at pos, 0 if none
FirstWord(pat, text, pos) ==
  LET ok == { i \in DOMAIN pat.word :
                /\ KeyMatchesAt(pat.word[i], text, pos)
                /\ WordBoundary(text, pos)
                /\ WordBoundary(text, pos + Len(pat.word[i])) }
  IN  IF ok = {} THEN 0 ELSE CHOOSE i \in ok : \A j \in ok : i <= j

\* a pattern for no keys that matches the empty string everywhere
NoPartsPattern_MatchEmpty(text, pos) == 0

\* lines 184 and 198: with no keys the pattern is (?!.*), which fails at
\* every position because .* matches there
NoPartsPattern(text, pos) == -1

\* length of the match of the whole pattern at pos, -1 if it does not match:
\* the apostrophe group is tried before the plain group
MatchAt(pat, text, pos) ==
  LET a == FirstApos(pat, text, pos)
      w == FirstWord(pat, text, pos)
  IN  IF pat.apos = << >> /\ pat.word = << >> THEN NoPartsPattern(text, pos)
      ELSE IF a # 0 THEN Len(pat.apos[a])
      ELSE IF w # 0 THEN Len(pat.word[w])
      ELSE -1

\* pattern.finditer(text): the non-overlapping matches from left to right, as
\* 0-based half-open spans; after an empty match the next one must advance
RECURSIVE FindFrom(_, _, _, _)
FindFrom(pat, text, pos, must_advance) ==
  IF pos > Len(text) THEN << >>
  ELSE LET m == MatchAt(pat, text, pos)
       IN  IF m = -1 \/ (m = 0 /\ must_advance)
           THEN FindFrom(pat, text, pos + 1, FALSE)
           ELSE << [start |-> pos, end |-> pos + m] >>
                  \o FindFrom(pat, text, pos + m, m = 0)

FindIter(pat, text) == FindFrom(pat, text, 0, FALSE)

\* the text with the i-th span of ms replaced by repls[i], as pattern.sub does
RECURSIVE Splice(_, _, _, _, _)
Splice(text, ms, repls, i, from) ==
  IF i > Len(ms) THEN Slice(text, from, Len(text))
  ELSE Slice(text, from, ms[i].start) \o repls[i]
         \o Splice(text, ms, repls, i + 1, ms[i].end)

(***************************************************************************)
(* The substitution engine: the pure part of fix, contract and preview.    *)
(***************************************************************************)

\* a rule that takes every base outside the two sets for a possessive
_is_contraction_s_default_deny(word) ==
  IF Len(word) < 3 THEN FALSE
  ELSE LET base == Lower(Slice(word, 0, Len(word) - 2))
       IN  base \in CONTRACTION_BASES \/ base \in TIME_WORDS

\* _is_contraction_s_optimized, lines 202-220
_is_contraction_s_optimized(word) ==
  IF Len(word) < 3 THEN FALSE
  ELSE LET base == Lower(Slice(word, 0, Len(word) - 2))
       IN  IF base \in CONTRACTION_BASES THEN TRUE
           ELSE IF base \in TIME_WORDS THEN TRUE
           ELSE IF \/ EndsWith(base, <<"s">>) \/ EndsWith(base, <<"x">>)
                   \/ EndsWith(base, <<"z">>)
                   \/ EndsWith(base, <<"c", "h">>) \/ EndsWith(base, <<"s", "h">>)
                THEN FALSE
           ELSE word[1] \notin UpperChars

\* the case handling shared by both replace_match functions, lines 244-249
\* and 265-270
CaseAdjust(matched_text, replacement) ==
  IF IsUpper(matched_text) THEN Upper(replacement)
  ELSE IF matched_text[1] \in UpperChars THEN Capitalize(replacement)
  ELSE replacement

\* lines 246 and 267: matched_text[0] raises IndexError for an empty match
CaseRaises(matched_text) == ~ IsUpper(matched_text) /\ Len(matched_text) = 0

\* what replace_match does with the stored value v
UseStored(matched_text, v) ==
  [ hit |-> TRUE, stored |-> v,
    out |-> IF CaseRaises(matched_text) THEN << >> ELSE CaseAdjust(matched_text, v),
    raised |-> CaseRaises(matched_text) ]

\* replace_match returns matched_text
KeepMatch(matched_text) ==
  [ hit |-> FALSE, stored |-> << >>, out |-> matched_text, raised |-> FALSE ]

\* replace_match of _fix_single_optimized, lines 225-249.  The result says
\* whether a stored value was used (hit), which one (stored), the string
\* put in place of the match (out), and whether the callback raised.
FixReplaceMatch(cd, matched_text) ==
  LET matched_lower == Lower(matched_text)
      alt_text      == Replace(matched_lower, "'", "'")
      keep          == KeepMatch(matched_text)
      use(v)        == UseStored(matched_text, v)
  IN  IF /\ EndsWith(matched_text, <<"'", "s">>) \/ EndsWith(matched_text, <<"'", "s">>)
         /\ ~ _is_contraction_s_optimized(matched_text)
      THEN keep
      ELSE IF Has(cd, matched_lower) THEN use(cd[matched_lower])
      ELSE IF Has(cd, alt_text) THEN use(cd[alt_text])
      ELSE keep

\* a replace_match that writes the contraction in upper case whatever the
\* case of the match
ContractReplaceMatch_Upper(rd, matched_text) ==
  LET matched_lower == Lower(matched_text)
  IN  IF Has(rd, matched_lower)
      THEN [ hit |-> TRUE, stored |-> rd[matched_lower],
             out |-> Upper(rd[matched_lower]), raised |-> FALSE ]
      ELSE KeepMatch(matched_text)

\* replace_match of _contract_single_optimized, lines 256-270
ContractReplaceMatch(rd, matched_text) ==
  LET matched_lower == Lower(matched_text)
  IN  IF Has(rd, matched_lower)
      THEN UseStored(matched_text, rd[matched_lower])
      ELSE KeepMatch(matched_text)

\* the matches of pat in text, each with the verdict of replace_match
FixMatches(pat, cd, text) ==
  LET ms == FindIter(pat, text)
  IN  [ i \in 1..Len(ms) |->
          [ text |-> Slice(text, ms[i].start, ms[i].end),
            start |-> ms[i].start, end |-> ms[i].end,
            r |-> FixReplaceMatch(cd, Slice(text, ms[i].start, ms[i].end)) ] ]

ContractMatches(rpat, rd, text) ==
  LET ms == FindIter(rpat, text)
  IN  [ i \in 1..Len(ms) |->
          [ text |-> Slice(text, ms[i].start, ms[i].end),
            start |-> ms[i].start, end |-> ms[i].end,
            r |-> ContractReplaceMatch(rd, Slice(text, ms[i].start, ms[i].end)) ] ]

\* the callback raised at one of the matches, and pattern.sub with it
SubRaises(ms) == \E i \in DOMAIN ms : ms[i].r.raised

\* pattern.sub(replace_match, text) given the matches and their verdicts
SubResult(text, ms) ==
  Splice(text, ms, [ i \in 1..Len(ms) |-> ms[i].r.out ], 1, 0)

\* the body of _fix_single_optimized, line 251, run with matcher pat on table cd
FixScan(pat, cd, text) == SubResult(text, FixMatches(pat, cd, text))

\* the body of _contract_single_optimized, line 272
ContractScan(rpat, rd, text) == SubResult(text, ContractMatches(rpat, rd, text))

\* a preview whose context stops at the end of the match
PreviewScan_NoRightContext(pat, cd, text, context_size) ==
  LET ms == FindIter(pat, text)
      Max(a, b) == IF a > b THEN a ELSE b
  IN  [ i \in 1..Len(ms) |->
          LET matched_text == Slice(text, ms[i].start, ms[i].end)
          IN  [ text        |-> matched_text,
                start       |-> ms[i].start,
                end         |-> ms[i].end,
                replacement |-> IF Has(cd, Lower(matched_text))
                                THEN cd[Lower(matched_text)] ELSE matched_text,
                context     |-> Slice(text, Max(0, ms[i].start - context_size),
                                      ms[i].end) ] ]

\* preview, lines 290-309
PreviewScan(pat, cd, text, context_size) ==
  LET ms == FindIter(pat, text)
      Min(a, b) == IF a < b THEN a ELSE b
      Max(a, b) == IF a > b THEN a ELSE b
  IN  [ i \in 1..Len(ms) |->
          LET matched_text == Slice(text, ms[i].start, ms[i].end)
          IN  [ text        |-> matched_text,
                start       |-> ms[i].start,
                end         |-> ms[i].end,
                replacement |-> IF Has(cd, Lower(matched_text))
                                THEN cd[Lower(matched_text)] ELSE matched_text,
                context     |-> Slice(text, Max(0, ms[i].start - context_size),
                                      Min(Len(text), ms[i].end + context_size)) ] ]

(***************************************************************************)
(* Construction: the tables __init__ builds from the three sources.  A     *)
(* source is the sequence of the <<key, value>> pairs of its JSON object,  *)
(* in file order.                                                          *)
(***************************************************************************)
SAFE_CONTRACTIONS ==
  { <<"a", "m", " ", "n", "o", "t">>,
    <<"a", "r", "e", " ", "n", "o", "t">>,
    <<"c", "a", "n", "n", "o", "t">>,
    <<"c", "o", "u", "l", "d", " ", "n", "o", "t">>,
    <<"d", "i", "d", " ", "n", "o", "t">>,
    <<"d", "o", " ", "n", "o", "t">>,
    <<"d", "o", "e", "s", " ", "n", "o", "t">>,
    <<"h", "a", "d", " ", "n", "o", "t">>,
    <<"h", "a", "s", " ", "n", "o", "t">>,
    <<"h", "a", "v", "e", " ", "n", "o", "t">>,
    <<"h", "e", " ", "i", "s">>,
    <<"h", "e", " ", "w", "i", "l", "l">>,
    <<"h", "e", " ", "w", "o", "u", "l", "d">>,
    <<"h", "e", "r", "e", " ", "i", "s">>,
    <<"h", "o", "w", " ", "i", "s">>,
    <<"i", "s", " ", "n", "o", "t">>,
    <<"i", "t", " ", "i", "s">>,
    <<"i", "t", " ", "w", "i", "l", "l">>,
    <<"i", "t", " ", "w", "o", "u", "l", "d">>,
    <<"l", "e", "t", " ", "u", "s">>,
    <<"m", "u", "s", "t", " ", "n", "o", "t">>,
    <<"s", "h", "a", "l", "l", " ", "n", "o", "t">>,
    <<"s", "h", "e", " ", "i", "s">>,
    <<"s", "h", "e", " ", "w", "i", "l", "l">>,
    <<"s", "h", "e", " ", "w", "o", "u", "l", "d">>,
    <<"s", "h", "o", "u", "l", "d", " ", "n", "o", "t">>,
    <<"t", "h", "a", "t", " ", "i", "s">>,
    <<"t", "h", "a", "t", " ", "w", "i", "l", "l">>,
    <<"t", "h", "a", "t", " ", "w", "o", "u", "l", "d">>,
    <<"t", "h", "e", "r", "e", " ", "i", "s">>,
    <<"t", "h", "e", "r", "e", " ", "w", "i", "l", "l">>,
    <<"t", "h", "e", "r", "e", " ", "w", "o", "u", "l", "d">>,
    <<"t", "h", "e", "y", " ", "a", "r", "e">>,
    <<"t", "h", "e", "y", " ", "h", "a", "v", "e">>,
    <<"t", "h", "e", "y", " ", "w", "i", "l", "l">>,
    <<"t", "h", "e", "y", " ", "w", "o", "u", "l", "d">>,
    <<"w", "a", "s", " ", "n", "o", "t">>,
    <<"w", "e", " ", "a", "r", "e">>,
    <<"w", "e", " ", "h", "a", "v", "e">>,
    <<"w", "e", " ", "w", "i", "l", "l">>,
    <<"w", "e", " ", "w", "o", "u", "l", "d">>,
    <<"w", "e", "r", "e", " ", "n", "o", "t">>,
    <<"w", "h", "a", "t", " ", "i", "s">>,
    <<"w", "h", "a", "t", " ", "w", "i", "l", "l">>,
    <<"w", "h", "e", "r", "e", " ", "i", "s">>,
    <<"w", "h", "o", " ", "i", "s">>,
    <<"w", "h", "o", " ", "w", "i", "l", "l">>,
    <<"w", "i", "l", "l", " ", "n", "o", "t">>,
    <<"w", "o", "u", "l", "d", " ", "n", "o", "t">>,
    <<"y", "o", "u", " ", "a", "r", "e">>,
    <<"y", "o", "u", " ", "h", "a", "v", "e">>,
    <<"y", "o", "u", " ", "w", "i", "l", "l">>,
    <<"y", "o", "u", " ", "w", "o", "u", "l", "d">>,
    <<"I", " ", "a", "m">>,
    <<"I", " ", "h", "a", "v", "e">>,
    <<"I", " ", "w", "i", "l", "l">>,
    <<"I", " ", "w", "o", "u", "l", "d">>,
    <<"y", "o", "u", " ", "a", "l", "l">>,
    <<"c", "o", "u", "l", "d", " ", "h", "a", "v", "e">>,
    <<"w", "o", "u", "l", "d", " ", "h", "a", "v", "e">>,
    <<"s", "h", "o", "u", "l", "d", " ", "h", "a", "v", "e">>,
    <<"m", "i", "g", "h", "t", " ", "h", "a", "v", "e">>,
    <<"m", "u", "s", "t", " ", "h", "a", "v", "e">>,
    <<"w", "o", "u", "l", "d", " ", "h", "a", "v", "e">>,
    <<"I", " ", "w", "o", "u", "l", "d", " ", "h", "a", "v", "e">>,
    <<"g", "o", "i", "n", "g", " ", "t", "o">>,
    <<"w", "a", "n", "t", " ", "t", "o">>,
    <<"g", "o", "t", " ", "t", "o">>,
    <<"k", "i", "n", "d", " ", "o", "f">> }

SAFE_INFORMAL ==
  Put(Put(Put(EmptyDict,
    <<"g", "o", "i", "n", "g">>, <<"g", "o", "i", "n", "'">>),
    <<"d", "o", "i", "n", "g">>, <<"d", "o", "i", "n", "'">>),
    <<"n", "o", "t", "h", "i", "n", "g">>, <<"n", "o", "t", "h", "i", "n", "'">>)

MONTHS ==
  << <<"j", "a", "n", "u", "a", "r", "y">>,
     <<"f", "e", "b", "r", "u", "a", "r", "y">>,
     <<"m", "a", "r", "c", "h">>,
     <<"a", "p", "r", "i", "l">>,
     <<"j", "u", "n", "e">>,
     <<"j", "u", "l", "y">>,
     <<"a", "u", "g", "u", "s", "t">>,
     <<"s", "e", "p", "t", "e", "m", "b", "e", "r">>,
     <<"o", "c", "t", "o", "b", "e", "r">>,
     <<"n", "o", "v", "e", "m", "b", "e", "r">>,
     <<"d", "e", "c", "e", "m", "b", "e", "r">> >>

\* the items of the dict built from the pairs items: a key stands where it
\* came first and has the value that came last
RECURSIVE DictItems(_, _)
DictItems(items, i) ==
  IF i > Len(items) THEN << >>
  ELSE LET k == items[i][1]
           last == CHOOSE j \in DOMAIN items :
                     /\ items[j][1] = k
                     /\ \A n \in DOMAIN items : items[n][1] = k => n <= j
       IN  IF \E j \in 1..(i - 1) : items[j][1] = k
           THEN DictItems(items, i + 1)
           ELSE << << k, items[last][2] >> >> \o DictItems(items, i + 1)

\* _load_dict_optimized, line 110: the keys are lower-cased
_load_dict_optimized(raw) ==
  DictItems([ i \in 1..Len(raw) |-> << Lower(raw[i][1]), raw[i][2] >> ], 1)

\* dict(items): a later pair overrides an earlier one with the same key
DictOf(items) ==
  [ k \in { items[i][1] : i \in DOMAIN items } |->
      items[CHOOSE i \in DOMAIN items :
              /\ items[i][1] = k
              /\ \A j \in DOMAIN items : items[j][1] = k => j <= i][2] ]

\* a str: a sequence of characters
IsStr(v) == \A i \in DOMAIN v : v[i] \in Chars

\* line 122: expansion.lower() raises AttributeError for a value that is not
\* a str
ReverseLoopRaises(standard) == \E i \in DOMAIN standard : ~ IsStr(standard[i][2])

\* a loop that registers every candidate it meets
RECURSIVE ReverseLoop_LastWins(_, _, _)
ReverseLoop_LastWins(standard, i, reverse_dict) ==
  IF i > Len(standard) THEN reverse_dict
  ELSE LET contraction     == standard[i][1]
           expansion_lower == Lower(standard[i][2])
           take ==
             /\ expansion_lower \in SAFE_CONTRACTIONS
             /\ Contains(contraction, "'")
             /\ Len(contraction) > 2
       IN  ReverseLoop_LastWins(standard, i + 1,
             IF take THEN Put(reverse_dict, expansion_lower, contraction)
             ELSE reverse_dict)

\* the loop of _build_reverse_dict_optimized, lines 121-130, from item i on
RECURSIVE ReverseLoop(_, _, _)
ReverseLoop(standard, i, reverse_dict) ==
  IF i > Len(standard) THEN reverse_dict
  ELSE LET contraction     == standard[i][1]
           expansion_lower == Lower(standard[i][2])
           apo             == << "'" >>
           take ==
             /\ expansion_lower \in SAFE_CONTRACTIONS
             /\ Contains(contraction, "'")
             /\ Len(contraction) > 2
             /\ \/ ~ Has(reverse_dict, expansion_lower)
                \/ /\ ~ StartsWith(contraction, apo)
                   /\ StartsWith(reverse_dict[expansion_lower], apo)
                \/ /\ Len(contraction) < Len(reverse_dict[expansion_lower])
                   /\ ~ StartsWith(contraction, apo)
       IN  ReverseLoop(standard, i + 1,
             IF take THEN Put(reverse_dict, expansion_lower, contraction)
             ELSE reverse_dict)

\* _build_reverse_dict_optimized, lines 116-136
_build_reverse_dict_optimized(standard, use_informal) ==
  LET reverse_dict == ReverseLoop(standard, 1, EmptyDict)
  IN  IF use_informal THEN Update(reverse_dict, SAFE_INFORMAL) ELSE reverse_dict

\* the month entries of lines 80-81
MonthEntries ==
  [ k \in { SubSeq(MONTHS[i], 1, 3) \o << "." >> : i \in DOMAIN MONTHS } |->
      MONTHS[CHOOSE i \in DOMAIN MONTHS : SubSeq(MONTHS[i], 1, 3) \o << "." >> = k] ]

\* _add_alt_apostrophes_optimized, lines 138-155, on the merged table
AltContractions(cd) ==
  LET ks == { k \in DOMAIN cd : Contains(k, "'") }
  IN  [ a \in { Replace(k, "'", "'") : k \in ks } |->
          cd[CHOOSE k \in ks : Replace(k, "'", "'") = a] ]

\* _add_alt_apostrophes_optimized on the reverse table
AltReverse(rd) ==
  [ k \in { x \in DOMAIN rd : Contains(rd[x], "'") } |-> Replace(rd[k], "'", "'") ]

\* __init__, lines 72-96: the merged and the reverse table
Construct(standard_raw, informal_raw, slang_raw, use_informal, use_slang) ==
  LET standard == _load_dict_optimized(standard_raw)
      informal == IF use_informal THEN DictOf(_load_dict_optimized(informal_raw))
                  ELSE EmptyDict
      slang    == IF use_slang THEN DictOf(_load_dict_optimized(slang_raw))
                  ELSE EmptyDict
      c1 == Update(DictOf(standard), MonthEntries)
      c2 == IF use_informal THEN Update(c1, informal) ELSE c1
      c3 == IF use_slang THEN Update(c2, slang) ELSE c2
      r1 == _build_reverse_dict_optimized(standard, use_informal)
  IN  [ combined_dict |-> Update(c3, AltContractions(c3)),
        reverse_dict  |-> Update(r1, AltReverse(r1)) ]

(***************************************************************************)
(* The mutation methods, statement by statement, as functions of the       *)
(* tables.                                                                 *)
(***************************************************************************)

\* an update that registers every key that holds an apostrophe
AddReverseUpdate_Always(rd, contraction_lower, expansion_lower) ==
  IF Contains(contraction_lower, "'") /\ Len(contraction_lower) > 1
  THEN Put(rd, expansion_lower, contraction_lower)
  ELSE rd

\* add_contraction, lines 323-326: the reverse table after the update
AddReverseUpdate(rd, contraction_lower, expansion_lower) ==
  IF /\ Contains(contraction_lower, "'")
     /\ Len(contraction_lower) > 1
     /\ \/ ~ Has(rd, expansion_lower)
        \/ Len(contraction_lower) < Len(rd[expansion_lower])
  THEN Put(rd, expansion_lower, contraction_lower)
  ELSE rd

\* remove_contraction, lines 353-355; got is the result of line 346
RemoveReverseUpdate(rd, contraction_lower, got) ==
  IF /\ got.found
     /\ got.val # << >>
     /\ Has(rd, Lower(got.val))
     /\ rd[Lower(got.val)] = contraction_lower
  THEN Pop(rd, Lower(got.val))
  ELSE rd

\* dict.get(k) as a record: found = FALSE stands for None
Get(d, k) ==
  IF Has(d, k) THEN [ found |-> TRUE, val |-> d[k] ]
  ELSE [ found |-> FALSE, val |-> << >> ]

\* the tables after a whole add_contraction call that runs alone
SerialAdd(tabs, contraction, expansion) ==
  LET contraction_lower == Lower(contraction)
      expansion_lower   == Lower(expansion)
      alt_contraction   == Replace(contraction_lower, "'", "'")
  IN  [ combined_dict |-> Put(Put(tabs.combined_dict, contraction_lower, expansion),
                              alt_contraction, expansion),
        reverse_dict  |-> AddReverseUpdate(tabs.reverse_dict, contraction_lower,
                                           expansion_lower) ]

\* the tables after a whole remove_contraction call that runs alone
SerialRemove(tabs, contraction) ==
  LET contraction_lower == Lower(contraction)
      got               == Get(tabs.combined_dict, contraction_lower)
  IN  [ combined_dict |-> Pop(Pop(tabs.combined_dict, contraction_lower),
                              Replace(contraction_lower, "'", "'")),
        reverse_dict  |-> RemoveReverseUpdate(tabs.reverse_dict, contraction_lower, got) ]

(***************************************************************************)
(* The engines.  The attributes of the engine that is being called, self,  *)
(* are the variables combined_dict, reverse_dict, _pattern and             *)
(* _reverse_pattern; others holds the attributes of the other engines of   *)
(* the process.  The two lru caches belong to the class: all the engines   *)
(* share them.                                                             *)
(***************************************************************************)
VARIABLES self, others

(***************************************************************************)
(* functools.lru_cache: a cache is the sequence of its entries, the least  *)
(* recently used one first.                                                *)
(***************************************************************************)
LruMaxSize == 2048

\* the default of the cache_size argument of __init__, line 64
DefaultCacheSize == 1024

\* position of the entry of key text, 0 if there is none
\* the key without the instance
CacheKey_TextOnly(text) == [ text |-> text ]

\* the key of a call self._fix_single_optimized(text): the arguments of the
\* call, the bound instance among them
CacheKey(text) == [ self |-> self, text |-> text ]

\* the part of an entry that is its key
KeyOf(entry) == [ n \in DOMAIN CacheKey(entry.text) |-> entry[n] ]

CacheIndex(cache, text) ==
  IF \E i \in DOMAIN cache : KeyOf(cache[i]) = CacheKey(text)
  THEN CHOOSE i \in DOMAIN cache : KeyOf(cache[i]) = CacheKey(text)
  ELSE 0

\* a hit moves the entry to the most recently used end
CacheTouch(cache, i) ==
  SubSeq(cache, 1, i - 1) \o SubSeq(cache, i + 1, Len(cache)) \o << cache[i] >>

\* the wrapper after the call returned: no insert if the key is there by now,
\* the oldest entry goes when the cache is full
CacheInsert(cache, text, res) ==
  IF CacheIndex(cache, text) # 0 THEN cache
  ELSE IF Len(cache) >= LruMaxSize
  THEN Tail(cache) \o << [ self |-> self, text |-> text, res |-> res ] >>
  ELSE cache \o << [ self |-> self, text |-> text, res |-> res ] >>

\* a cache_clear that leaves the entries in place
CacheClear_Keep(cache) == cache

\* cache_clear of the lru wrapper
CacheClear(cache) == << >>

(***************************************************************************)
(* The state: one engine and the threads that call it.                     *)
(*                                                                         *)
(*   combined_dict, reverse_dict      the merged and the reverse table     *)
(*   _pattern, _reverse_pattern       the cached matchers                  *)
(*   fix_cache, contract_cache        the lru caches of the two methods    *)
(*   _lock                            the holder of self._lock, 0 if free  *)
(*   cache_size                       the cache_size argument of __init__  *)
(*   frames                           per thread: the call in progress,    *)
(*                                    its position and its locals          *)
(*   calls                            number of calls started              *)
(*   serial                           history variable: the tables after   *)
(*                                    the mutations run one at a time, in  *)
(*                                    the order they took the lock         *)
(*   hist                             history variable: the calls that     *)
(*                                    returned, in order                   *)
(***************************************************************************)
VARIABLES combined_dict, reverse_dict, _pattern, _reverse_pattern,
          fix_cache, contract_cache, _lock, cache_size,
          frames, calls, serial, hist

vars == << combined_dict, reverse_dict, _pattern, _reverse_pattern,
           fix_cache, contract_cache, _lock, cache_size,
           frames, calls, serial, hist, self, others >>

Threads == { 1, 2 }

NoGet == [ found |-> FALSE, val |-> << >> ]

\* the tables as a record
Tables(cd, rd) == [ combined_dict |-> cd, reverse_dict |-> rd ]

NoTables == Tables(EmptyDict, EmptyDict)

\* the arguments of __init__, the package data it reads, and its locals
\* standard, informal and slang
NoFlags == [ use_informal |-> FALSE, use_slang |-> FALSE ]

NoFile == [ kind |-> "missing", pairs |-> << >> ]

NoFiles == [ standard |-> NoFile, informal |-> NoFile, slang |-> NoFile ]

\* read lists the files pkgutil.get_data was asked for
NoLoaded ==
  [ standard |-> << >>, informal |-> << >>, slang |-> << >>, read |-> << >> ]

\* flags, files and loaded belong to a call of __init__;
\* texts and results are the argument and the list under construction of a
\* batch call, raised says that the call ended with an exception, and before
\* keeps the tables a mutation found when it took the lock
IdleFrame ==
  [ pc |-> "idle", op |-> "none", text |-> << >>,
    contraction_lower |-> << >>, expansion |-> << >>, got |-> NoGet,
    context_size |-> 0, pat |-> NoPattern, res |-> << >>, matches |-> << >>,
    cached |-> FALSE, overlap |-> FALSE,
    texts |-> << >>, results |-> << >>, raised |-> FALSE, before |-> NoTables,
    flags |-> NoFlags, files |-> NoFiles, loaded |-> NoLoaded ]

ReadOps == { "fix", "contract", "preview", "fix_batch", "contract_batch" }

BatchOps == { "fix_batch", "contract_batch" }

\* where a call goes on once the lru wrapper returned: fix and contract
\* return it, the comprehension of a batch call appends it
AfterSingle(op) == IF op \in BatchOps THEN "batch_append" ELSE "return"

MutationOps == { "add_contraction", "remove_contraction" }

\* the positions between taking and releasing self._lock
LockedPcs ==
  { "add_put", "add_put_alt", "add_reverse",
    "remove_get", "remove_pop", "remove_pop_alt", "remove_reverse",
    "clear_pattern", "clear_reverse_pattern", "clear_fix_cache",
    "clear_contract_cache", "release" }

\* a lock that never blocks
LockFree_NoExclusion(l) == TRUE

\* threading.Lock.acquire succeeds
LockFree(l) == l = 0

Goto(th, label) == frames' = [ frames EXCEPT ![th].pc = label ]

(***************************************************************************)
(* Construction.                                                           *)
(***************************************************************************)
\* the engine that a process with one engine calls
DefaultInstance == "engine"

NoOthers == [ i \in {} |-> NoTables ]

InitEngine(tabs, size) ==
  /\ combined_dict = tabs.combined_dict
  /\ reverse_dict = tabs.reverse_dict
  /\ _pattern = NoPattern
  /\ _reverse_pattern = NoPattern
  /\ fix_cache = << >>
  /\ contract_cache = << >>
  /\ _lock = 0
  /\ cache_size = size
  /\ frames = [ th \in Threads |-> IdleFrame ]
  /\ calls = 0
  /\ serial = tabs
  /\ hist = << >>
  /\ self = DefaultInstance
  /\ others = NoOthers

(***************************************************************************)
(* fix(text): the lru wrapper, the pattern property, the scan.             *)
(***************************************************************************)
StartRead(th, op, text, first, max) ==
  /\ frames[th].pc = "idle"
  /\ calls < max
  /\ calls' = calls + 1
  /\ frames' = [ frames EXCEPT ![th] =
                   [ IdleFrame EXCEPT !.pc = first, !.op = op, !.text = text,
                                      !.overlap = (_lock # 0) ] ]
  /\ UNCHANGED << combined_dict, reverse_dict, _pattern, _reverse_pattern,
                  fix_cache, contract_cache, _lock, cache_size, serial, hist,
                  self, others >>

\* fix, line 276
StartFix(th, text, max) == StartRead(th, "fix", text, "fix_lookup", max)

\* lru wrapper of _fix_single_optimized, line 222: lookup
FixLookup(th) ==
  /\ frames[th].pc = "fix_lookup"
  /\ LET i == CacheIndex(fix_cache, frames[th].text)
     IN  IF i # 0
         THEN /\ fix_cache' = CacheTouch(fix_cache, i)
              /\ frames' = [ frames EXCEPT ![th].pc = AfterSingle(frames[th].op),
                                           ![th].res = fix_cache[i].res,
                                           ![th].cached = TRUE ]
         ELSE /\ fix_cache' = fix_cache
              /\ Goto(th, "pattern_check")
  /\ UNCHANGED << combined_dict, reverse_dict, _pattern, _reverse_pattern,
                  contract_cache, _lock, cache_size, calls, serial, hist,
                  self, others >>

\* where a call goes on once self.pattern returned
AfterPattern(op) == IF op = "preview" THEN "preview_scan" ELSE "fix_sub"

\* pattern, lines 160-161
PatternCheck(th) ==
  /\ frames[th].pc = "pattern_check"
  /\ IF _pattern.valid
     THEN frames' = [ frames EXCEPT ![th].pc = AfterPattern(frames[th].op),
                                    ![th].pat = _pattern ]
     ELSE Goto(th, "pattern_sort")
  /\ UNCHANGED << combined_dict, reverse_dict, _pattern, _reverse_pattern,
                  fix_cache, contract_cache, _lock, cache_size, calls, serial, hist,
                  self, others >>

\* pattern, lines 164-184: the keys are read and the alternation is built
PatternSort(th) ==
  /\ frames[th].pc = "pattern_sort"
  /\ frames' = [ frames EXCEPT ![th].pc = "pattern_store",
                               ![th].pat = CompilePattern(DOMAIN combined_dict) ]
  /\ UNCHANGED << combined_dict, reverse_dict, _pattern, _reverse_pattern,
                  fix_cache, contract_cache, _lock, cache_size, calls, serial, hist,
                  self, others >>

\* pattern, lines 185-186
PatternStore(th) ==
  /\ frames[th].pc = "pattern_store"
  /\ _pattern' = frames[th].pat
  /\ Goto(th, AfterPattern(frames[th].op))
  /\ UNCHANGED << combined_dict, reverse_dict, _reverse_pattern,
                  fix_cache, contract_cache, _lock, cache_size, calls, serial, hist,
                  self, others >>

\* _fix_single_optimized, line 251; an exception of the callback leaves
\* the method, the lru wrapper and the calling method
FixSub(th) ==
  /\ frames[th].pc = "fix_sub"
  /\ LET ms == FixMatches(frames[th].pat, combined_dict, frames[th].text)
     IN  frames' = IF SubRaises(ms)
                   THEN [ frames EXCEPT ![th].pc = "return",
                                        ![th].matches = ms,
                                        ![th].raised = TRUE ]
                   ELSE [ frames EXCEPT ![th].pc = "fix_store",
                                        ![th].matches = ms,
                                        ![th].res = SubResult(frames[th].text, ms) ]
  /\ UNCHANGED << combined_dict, reverse_dict, _pattern, _reverse_pattern,
                  fix_cache, contract_cache, _lock, cache_size, calls, serial, hist,
                  self, others >>

\* lru wrapper of _fix_single_optimized: the result is memoized
FixStore(th) ==
  /\ frames[th].pc = "fix_store"
  /\ fix_cache' = CacheInsert(fix_cache, frames[th].text, frames[th].res)
  /\ Goto(th, AfterSingle(frames[th].op))
  /\ UNCHANGED << combined_dict, reverse_dict, _pattern, _reverse_pattern,
                  contract_cache, _lock, cache_size, calls, serial, hist,
                  self, others >>

(***************************************************************************)
(* contract(text)                                                          *)
(***************************************************************************)
\* contract, line 284
StartContract(th, text, max) == StartRead(th, "contract", text, "contract_lookup", max)

\* lru wrapper of _contract_single_optimized, line 253: lookup
ContractLookup(th) ==
  /\ frames[th].pc = "contract_lookup"
  /\ LET i == CacheIndex(contract_cache, frames[th].text)
     IN  IF i # 0
         THEN /\ contract_cache' = CacheTouch(contract_cache, i)
              /\ frames' = [ frames EXCEPT ![th].pc = AfterSingle(frames[th].op),
                                           ![th].res = contract_cache[i].res,
                                           ![th].cached = TRUE ]
         ELSE /\ contract_cache' = contract_cache
              /\ Goto(th, "reverse_pattern_check")
  /\ UNCHANGED << combined_dict, reverse_dict, _pattern, _reverse_pattern,
                  fix_cache, _lock, cache_size, calls, serial, hist,
                  self, others >>

\* reverse_pattern, lines 191-192
ReversePatternCheck(th) ==
  /\ frames[th].pc = "reverse_pattern_check"
  /\ IF _reverse_pattern.valid
     THEN frames' = [ frames EXCEPT ![th].pc = "contract_sub",
                                    ![th].pat = _reverse_pattern ]
     ELSE Goto(th, "reverse_pattern_sort")
  /\ UNCHANGED << combined_dict, reverse_dict, _pattern, _reverse_pattern,
                  fix_cache, contract_cache, _lock, cache_size, calls, serial, hist,
                  self, others >>

\* reverse_pattern, lines 195-198
ReversePatternSort(th) ==
  /\ frames[th].pc = "reverse_pattern_sort"
  /\ frames' = [ frames EXCEPT ![th].pc = "reverse_pattern_store",
                               ![th].pat = CompileReversePattern(DOMAIN reverse_dict) ]
  /\ UNCHANGED << combined_dict, reverse_dict, _pattern, _reverse_pattern,
                  fix_cache, contract_cache, _lock, cache_size, calls, serial, hist,
                  self, others >>

\* reverse_pattern, lines 199-200
ReversePatternStore(th) ==
  /\ frames[th].pc = "reverse_pattern_store"
  /\ _reverse_pattern' = frames[th].pat
  /\ Goto(th, "contract_sub")
  /\ UNCHANGED << combined_dict, reverse_dict, _pattern,
                  fix_cache, contract_cache, _lock, cache_size, calls, serial, hist,
                  self, others >>

\* _contract_single_optimized, line 272
ContractSub(th) ==
  /\ frames[th].pc = "contract_sub"
  /\ LET ms == ContractMatches(frames[th].pat, reverse_dict, frames[th].text)
     IN  frames' = IF SubRaises(ms)
                   THEN [ frames EXCEPT ![th].pc = "return",
                                        ![th].matches = ms,
                                        ![th].raised = TRUE ]
                   ELSE [ frames EXCEPT ![th].pc = "contract_store",
                                        ![th].matches = ms,
                                        ![th].res = SubResult(frames[th].text, ms) ]
  /\ UNCHANGED << combined_dict, reverse_dict, _pattern, _reverse_pattern,
                  fix_cache, contract_cache, _lock, cache_size, calls, serial, hist,
                  self, others >>

\* lru wrapper of _contract_single_optimized: the result is memoized
ContractStore(th) ==
  /\ frames[th].pc = "contract_store"
  /\ contract_cache' = CacheInsert(contract_cache, frames[th].text, frames[th].res)
  /\ Goto(th, AfterSingle(frames[th].op))
  /\ UNCHANGED << combined_dict, reverse_dict, _pattern, _reverse_pattern,
                  fix_cache, _lock, cache_size, calls, serial, hist,
                  self, others >>

(***************************************************************************)
(* fix_batch(texts) and contract_batch(texts): the list comprehension      *)
(* calls the lru wrapper for each text in turn.                            *)
(***************************************************************************)
StartBatch(th, op, texts, max) ==
  /\ frames[th].pc = "idle"
  /\ calls < max
  /\ calls' = calls + 1
  /\ frames' = [ frames EXCEPT ![th] =
                   [ IdleFrame EXCEPT !.pc = "batch_next", !.op = op, !.texts = texts,
                                      !.overlap = (_lock # 0) ] ]
  /\ UNCHANGED << combined_dict, reverse_dict, _pattern, _reverse_pattern,
                  fix_cache, contract_cache, _lock, cache_size, serial, hist,
                  self, others >>

\* fix_batch, line 280
StartFixBatch(th, texts, max) == StartBatch(th, "fix_batch", texts, max)

\* contract_batch, line 288
StartContractBatch(th, texts, max) == StartBatch(th, "contract_batch", texts, max)

\* the comprehension puts a result at the end of its list
ListAppend_Front(results, res) == << res >> \o results

ListAppend(results, res) == Append(results, res)

\* lines 280 and 288: the comprehension takes the next text, or returns
\* the list when there is none
BatchNext(th) ==
  /\ frames[th].pc = "batch_next"
  /\ LET n == Len(frames[th].results)
     IN  IF n < Len(frames[th].texts)
         THEN frames' = [ frames EXCEPT
                            ![th].pc = IF frames[th].op = "fix_batch"
                                       THEN "fix_lookup" ELSE "contract_lookup",
                            ![th].text = frames[th].texts[n + 1] ]
         ELSE frames' = [ frames EXCEPT ![th].pc = "return",
                                        ![th].res = frames[th].results ]
  /\ UNCHANGED << combined_dict, reverse_dict, _pattern, _reverse_pattern,
                  fix_cache, contract_cache, _lock, cache_size, calls, serial, hist,
                  self, others >>

\* lines 280 and 288: the value of the wrapper joins the list
BatchAppend(th) ==
  /\ frames[th].pc = "batch_append"
  /\ frames' = [ frames EXCEPT ![th].pc = "batch_next",
                               ![th].results = ListAppend(frames[th].results,
                                                          frames[th].res) ]
  /\ UNCHANGED << combined_dict, reverse_dict, _pattern, _reverse_pattern,
                  fix_cache, contract_cache, _lock, cache_size, calls, serial, hist,
                  self, others >>

\* the steps of a batch call of thread th
BatchStep(th) == BatchNext(th) \/ BatchAppend(th)

(***************************************************************************)
(* preview(text, context_size)                                             *)
(***************************************************************************)
\* preview, lines 290-295: the call starts by reading self.pattern
StartPreview(th, text, context_size, max) ==
  /\ frames[th].pc = "idle"
  /\ calls < max
  /\ calls' = calls + 1
  /\ frames' = [ frames EXCEPT ![th] =
                   [ IdleFrame EXCEPT !.pc = "pattern_check", !.op = "preview",
                                      !.text = text, !.context_size = context_size,
                                      !.overlap = (_lock # 0) ] ]
  /\ UNCHANGED << combined_dict, reverse_dict, _pattern, _reverse_pattern,
                  fix_cache, contract_cache, _lock, cache_size, serial, hist,
                  self, others >>

\* preview, lines 295-309
PreviewLoop(th) ==
  /\ frames[th].pc = "preview_scan"
  /\ frames' = [ frames EXCEPT ![th].pc = "return",
                               ![th].res = PreviewScan(frames[th].pat, combined_dict,
                                                       frames[th].text,
                                                       frames[th].context_size) ]
  /\ UNCHANGED << combined_dict, reverse_dict, _pattern, _reverse_pattern,
                  fix_cache, contract_cache, _lock, cache_size, calls, serial, hist,
                  self, others >>

(***************************************************************************)
(* add_contraction(contraction, expansion) and                             *)
(* remove_contraction(contraction)                                         *)
(***************************************************************************)
\* add_contraction, line 311: the call, up to the with statement
StartAdd(th, contraction, expansion, max) ==
  /\ frames[th].pc = "idle"
  /\ calls < max
  /\ calls' = calls + 1
  /\ frames' = [ frames EXCEPT ![th] =
                   [ IdleFrame EXCEPT !.pc = "acquire", !.op = "add_contraction",
                                      !.contraction_lower = Lower(contraction),
                                      !.expansion = expansion ] ]
  /\ UNCHANGED << combined_dict, reverse_dict, _pattern, _reverse_pattern,
                  fix_cache, contract_cache, _lock, cache_size, serial, hist,
                  self, others >>

\* remove_contraction, line 340: the call, up to the with statement
StartRemove(th, contraction, max) ==
  /\ frames[th].pc = "idle"
  /\ calls < max
  /\ calls' = calls + 1
  /\ frames' = [ frames EXCEPT ![th] =
                   [ IdleFrame EXCEPT !.pc = "acquire", !.op = "remove_contraction",
                                      !.contraction_lower = Lower(contraction) ] ]
  /\ UNCHANGED << combined_dict, reverse_dict, _pattern, _reverse_pattern,
                  fix_cache, contract_cache, _lock, cache_size, serial, hist,
                  self, others >>

\* with self._lock, lines 313 and 342.  The reads in progress are marked as
\* overlapping a mutation, and serial gets the effect of the whole call.
Acquire(th) ==
  /\ frames[th].pc = "acquire"
  /\ LockFree(_lock)
  /\ _lock' = th
  /\ frames' = [ o \in Threads |->
                   IF o = th
                   THEN [ frames[o] EXCEPT !.pc = IF frames[o].op = "add_contraction"
                                                  THEN "add_put" ELSE "remove_get",
                                           !.before = Tables(combined_dict, reverse_dict) ]
                   ELSE IF frames[o].op \in ReadOps
                   THEN [ frames[o] EXCEPT !.overlap = TRUE ]
                   ELSE frames[o] ]
  /\ serial' = IF frames[th].op = "add_contraction"
               THEN SerialAdd(serial, frames[th].contraction_lower, frames[th].expansion)
               ELSE SerialRemove(serial, frames[th].contraction_lower)
  /\ UNCHANGED << combined_dict, reverse_dict, _pattern, _reverse_pattern,
                  fix_cache, contract_cache, cache_size, calls, hist,
                  self, others >>

\* add_contraction, line 318
AddPut(th) ==
  /\ frames[th].pc = "add_put"
  /\ combined_dict' = Put(combined_dict, frames[th].contraction_lower, frames[th].expansion)
  /\ Goto(th, "add_put_alt")
  /\ UNCHANGED << reverse_dict, _pattern, _reverse_pattern, fix_cache, contract_cache,
                  _lock, cache_size, calls, serial, hist,
                  self, others >>

\* add_contraction, lines 319-320
AddPutAlt(th) ==
  /\ frames[th].pc = "add_put_alt"
  /\ combined_dict' = Put(combined_dict, Replace(frames[th].contraction_lower, "'", "'"),
                          frames[th].expansion)
  /\ Goto(th, "add_reverse")
  /\ UNCHANGED << reverse_dict, _pattern, _reverse_pattern, fix_cache, contract_cache,
                  _lock, cache_size, calls, serial, hist,
                  self, others >>

\* add_contraction, lines 323-326
AddReverse(th) ==
  /\ frames[th].pc = "add_reverse"
  /\ reverse_dict' = AddReverseUpdate(reverse_dict, frames[th].contraction_lower,
                                      Lower(frames[th].expansion))
  /\ Goto(th, "clear_pattern")
  /\ UNCHANGED << combined_dict, _pattern, _reverse_pattern, fix_cache, contract_cache,
                  _lock, cache_size, calls, serial, hist,
                  self, others >>

\* remove_contraction, line 346
RemoveGet(th) ==
  /\ frames[th].pc = "remove_get"
  /\ frames' = [ frames EXCEPT ![th].pc = "remove_pop",
                               ![th].got = Get(combined_dict, frames[th].contraction_lower) ]
  /\ UNCHANGED << combined_dict, reverse_dict, _pattern, _reverse_pattern,
                  fix_cache, contract_cache, _lock, cache_size, calls, serial, hist,
                  self, others >>

\* remove_contraction, line 349
RemovePop(th) ==
  /\ frames[th].pc = "remove_pop"
  /\ combined_dict' = Pop(combined_dict, frames[th].contraction_lower)
  /\ Goto(th, "remove_pop_alt")
  /\ UNCHANGED << reverse_dict, _pattern, _reverse_pattern, fix_cache, contract_cache,
                  _lock, cache_size, calls, serial, hist,
                  self, others >>

\* remove_contraction, line 350
RemovePopAlt(th) ==
  /\ frames[th].pc = "remove_pop_alt"
  /\ combined_dict' = Pop(combined_dict, Replace(frames[th].contraction_lower, "'", "'"))
  /\ Goto(th, "remove_reverse")
  /\ UNCHANGED << reverse_dict, _pattern, _reverse_pattern, fix_cache, contract_cache,
                  _lock, cache_size, calls, serial, hist,
                  self, others >>

\* remove_contraction, lines 353-355
RemoveReverse(th) ==
  /\ frames[th].pc = "remove_reverse"
  /\ reverse_dict' = RemoveReverseUpdate(reverse_dict, frames[th].contraction_lower,
                                         frames[th].got)
  /\ Goto(th, "clear_pattern")
  /\ UNCHANGED << combined_dict, _pattern, _reverse_pattern, fix_cache, contract_cache,
                  _lock, cache_size, calls, serial, hist,
                  self, others >>

\* a mutation that leaves the forward matcher in place
ClearPattern_Keep(th) ==
  /\ frames[th].pc = "clear_pattern"
  /\ Goto(th, "clear_reverse_pattern")
  /\ UNCHANGED << combined_dict, reverse_dict, _pattern, _reverse_pattern, fix_cache,
                  contract_cache, _lock, cache_size, calls, serial, hist,
                  self, others >>

\* lines 329 and 358
ClearPattern(th) ==
  /\ frames[th].pc = "clear_pattern"
  /\ _pattern' = NoPattern
  /\ Goto(th, "clear_reverse_pattern")
  /\ UNCHANGED << combined_dict, reverse_dict, _reverse_pattern, fix_cache, contract_cache,
                  _lock, cache_size, calls, serial, hist,
                  self, others >>

\* lines 330 and 359
ClearReversePattern(th) ==
  /\ frames[th].pc = "clear_reverse_pattern"
  /\ _reverse_pattern' = NoPattern
  /\ Goto(th, "clear_fix_cache")
  /\ UNCHANGED << combined_dict, reverse_dict, _pattern, fix_cache, contract_cache,
                  _lock, cache_size, calls, serial, hist,
                  self, others >>

\* lines 333 and 362
ClearFixCache(th) ==
  /\ frames[th].pc = "clear_fix_cache"
  /\ fix_cache' = CacheClear(fix_cache)
  /\ Goto(th, "clear_contract_cache")
  /\ UNCHANGED << combined_dict, reverse_dict, _pattern, _reverse_pattern, contract_cache,
                  _lock, cache_size, calls, serial, hist,
                  self, others >>

\* lines 334 and 363
ClearContractCache(th) ==
  /\ frames[th].pc = "clear_contract_cache"
  /\ contract_cache' = CacheClear(contract_cache)
  /\ Goto(th, "release")
  /\ UNCHANGED << combined_dict, reverse_dict, _pattern, _reverse_pattern, fix_cache,
                  _lock, cache_size, calls, serial, hist,
                  self, others >>

\* lines 337-338 and 366-367 (the tuple copies, which nothing reads), and
\* the end of the with statement
Release(th) ==
  /\ frames[th].pc = "release"
  /\ _lock' = 0
  /\ Goto(th, "return")
  /\ UNCHANGED << combined_dict, reverse_dict, _pattern, _reverse_pattern,
                  fix_cache, contract_cache, cache_size, calls, serial, hist,
                  self, others >>

(***************************************************************************)
(* The call returns to its caller.                                         *)
(***************************************************************************)
HistEntry(f) ==
  [ op |-> f.op,
    arg |-> IF f.op \in ReadOps THEN f.text ELSE f.contraction_lower,
    expansion |-> f.expansion,
    res |-> f.res, matches |-> f.matches, cached |-> f.cached,
    texts |-> f.texts, raised |-> f.raised, before |-> f.before ]

Return(th, record) ==
  /\ frames[th].pc = "return"
  /\ frames' = [ frames EXCEPT ![th] = IdleFrame ]
  /\ hist' = IF record THEN Append(hist, HistEntry(frames[th])) ELSE hist
  /\ UNCHANGED << combined_dict, reverse_dict, _pattern, _reverse_pattern,
                  fix_cache, contract_cache, _lock, cache_size, calls, serial,
                  self, others >>

\* the steps of the calls in progress of thread th
Step(th) ==
  \/ FixLookup(th) \/ PatternCheck(th) \/ PatternSort(th) \/ PatternStore(th)
  \/ FixSub(th) \/ FixStore(th)
  \/ ContractLookup(th) \/ ReversePatternCheck(th) \/ ReversePatternSort(th)
  \/ ReversePatternStore(th) \/ ContractSub(th) \/ ContractStore(th)
  \/ PreviewLoop(th)
  \/ Acquire(th) \/ AddPut(th) \/ AddPutAlt(th) \/ AddReverse(th)
  \/ RemoveGet(th) \/ RemovePop(th) \/ RemovePopAlt(th) \/ RemoveReverse(th)
  \/ ClearPattern(th) \/ ClearReversePattern(th) \/ ClearFixCache(th)
  \/ ClearContractCache(th) \/ Release(th)

(***************************************************************************)
(* Sample sources and texts.                                               *)
(***************************************************************************)
its    == <<"i", "t", "'", "s">>
it_is  == <<"i", "t", " ", "i", "s">>
yall   == <<"y", "'", "a", "l", "l">>
you_all == <<"y", "o", "u", " ", "a", "l", "l">>

\* a standard source with one entry
StandardSmall == << << its, it_is >> >>

(***************************************************************************)
(* Spec: the threads of Threads call one engine concurrently.              *)
(***************************************************************************)
MaxCalls == 3

ConcFixTexts == { yall }

ConcContractTexts == { you_all }

ConcAdds == { << yall, you_all >> }

ConcRemoves == { yall }

Init ==
  InitEngine(Construct(StandardSmall, << >>, << >>, FALSE, FALSE), DefaultCacheSize)

CallFix(th) == \E t \in ConcFixTexts : StartFix(th, t, MaxCalls)

CallContract(th) == \E t \in ConcContractTexts : StartContract(th, t, MaxCalls)

CallPreview(th) == \E t \in ConcFixTexts : StartPreview(th, t, 0, MaxCalls)

CallAdd(th) == \E a \in ConcAdds : StartAdd(th, a[1], a[2], MaxCalls)

CallRemove(th) == \E k \in ConcRemoves : StartRemove(th, k, MaxCalls)

Next ==
  \E th \in Threads :
    \/ CallFix(th) \/ CallContract(th) \/ CallPreview(th)
    \/ CallAdd(th) \/ CallRemove(th)
    \/ Step(th)
    \/ Return(th, FALSE)

Spec == Init /\ [][Next]_vars

(***************************************************************************)
(* Reference results: the scan with a matcher compiled from the tables as  *)
(* they are, and no cache.                                                 *)
(***************************************************************************)
FixRef(cd, text) == FixScan(CompilePattern(DOMAIN cd), cd, text)

ContractRef(rd, text) == ContractScan(CompileReversePattern(DOMAIN rd), rd, text)

Quiescent == \A th \in Threads : frames[th].pc = "idle"

\* a cached matcher agrees with its table
ForwardMatcherCurrent == _pattern.valid => PatternKeys(_pattern) = DOMAIN combined_dict

ReverseMatcherCurrent ==
  _reverse_pattern.valid => PatternKeys(_reverse_pattern) = DOMAIN reverse_dict

(***************************************************************************)
(* C1: when threads call fix, add_contraction and remove_contraction on    *)
(* one engine concurrently, then once every call has returned each matcher *)
(* that is valid was built from the current key set of its table.          *)
(***************************************************************************)
C1_QuiescentMatchersCurrent ==
  Quiescent => ForwardMatcherCurrent /\ ReverseMatcherCurrent

(***************************************************************************)
(* C2: no read (fix, contract, preview) executes a step while a mutation   *)
(* is between taking and releasing the lock, and the scan of a read runs   *)
(* on a table whose key set is the one of the matcher it uses.             *)
(***************************************************************************)
ReadStepDuringMutation ==
  \E th \in Threads :
    /\ _lock # 0
    /\ frames[th].op \in ReadOps
    /\ frames[th].pc # "return"
    /\ frames'[th].pc # frames[th].pc

ScanOnOtherKeys ==
  \E th \in Threads :
    /\ frames'[th].pc # frames[th].pc
    /\ \/ /\ frames[th].pc \in { "fix_sub", "preview_scan" }
          /\ PatternKeys(frames[th].pat) # DOMAIN combined_dict
       \/ /\ frames[th].pc = "contract_sub"
          /\ PatternKeys(frames[th].pat) # DOMAIN reverse_dict

C2_ReadsExcludedByMutation ==
  [][ ~ ReadStepDuringMutation /\ ~ ScanOnOtherKeys ]_vars

(***************************************************************************)
(* C3: a fix or contract call that starts after every earlier mutation has *)
(* returned, and that no mutation overlaps, returns the result for the     *)
(* tables as they are, whatever calls were in progress during the earlier  *)
(* mutations.                                                              *)
(***************************************************************************)
C3_FreshAfterMutation ==
  \A th \in Threads :
    frames[th].pc = "return" /\ ~ frames[th].overlap =>
      /\ frames[th].op = "fix" =>
           frames[th].res = FixRef(combined_dict, frames[th].text)
      /\ frames[th].op = "contract" =>
           frames[th].res = ContractRef(reverse_dict, frames[th].text)

(***************************************************************************)
(* C4: two mutations never interleave: at most one thread is between       *)
(* taking and releasing the lock, and whenever the lock is free the two    *)
(* tables are the ones that the mutations give when run one at a time in   *)
(* the order in which they took the lock.                                  *)
(***************************************************************************)
C4_MutationsSerialized ==
  /\ \A a, b \in Threads :
       frames[a].pc \in LockedPcs /\ frames[b].pc \in LockedPcs => a = b
  /\ _lock = 0 =>
       /\ combined_dict = serial.combined_dict
       /\ reverse_dict = serial.reverse_dict

\* one mutation has just returned and changed the tables while the other
\* thread, which had to wait for the lock, is in the middle of its own: it
\* has updated the forward table and not yet the reverse table
C4_Witness ==
  \E a, b \in Threads :
    /\ a # b
    /\ frames[a].pc = "return" /\ frames[a].op = "add_contraction"
    /\ frames[b].pc = "remove_reverse"
    /\ combined_dict = serial.combined_dict
    /\ reverse_dict # serial.reverse_dict

(***************************************************************************)
(* SpecSeq: one caller, one call at a time.  The engine is built with the  *)
(* slang source switched on and cache_size=2; each call returns before the *)
(* next starts, and hist records the calls.  A fix or contract may take    *)
(* the result of the call before it as its text.                           *)
(***************************************************************************)
youre  == <<"y", "o", "u", "'", "r", "e">>
you_are == <<"y", "o", "u", " ", "a", "r", "e">>
yw     == <<"y", "w">>
youre_welcome ==
  <<"y", "o", "u", "'", "r", "e", " ", "w", "e", "l", "c", "o", "m", "e">>
b      == <<"b">>
be     == <<"b", "e">>
It_IS  == <<"I", "t", " ", "I", "S">>
tv     == <<"t", "v">>
TV_set == <<"T", "V", " ", "s", "e", "t">>
Tv     == <<"T", "v">>
dogs   == <<"d", "o", "g", "'", "s">>
dog_is == <<"d", "o", "g", " ", "i", "s">>
Dogs   == <<"D", "o", "g", "'", "s">>
bosss  == <<"b", "o", "s", "s", "'", "s">>
boss_is == <<"b", "o", "s", "s", " ", "i", "s">>

StandardSeq == << << its, it_is >>, << youre, you_are >> >>

SlangSeq == << << yw, youre_welcome >>, << b, be >> >>

SmallCacheSize == 2

MaxSeqCalls == 3

SeqTexts == { its, yw, b, It_IS, Tv, dogs, Dogs, bosss }

SeqAdds == { << tv, TV_set >>, << dogs, dog_is >>, << bosss, boss_is >> }

SeqRemoves == { yw }

SeqPreviewTexts == { its, Dogs }

\* the one caller is the first thread
Caller == CHOOSE th \in Threads : \A o \in Threads : th <= o

InitSeq ==
  InitEngine(Construct(StandardSeq, << >>, SlangSeq, FALSE, TRUE), SmallCacheSize)

\* the result of the call before, when that call was a fix or a contract
HasLast == Len(hist) > 0 /\ hist[Len(hist)].op \in { "fix", "contract" }

SeqFix == \E t \in SeqTexts : StartFix(Caller, t, MaxSeqCalls)

SeqFixLast == HasLast /\ StartFix(Caller, hist[Len(hist)].res, MaxSeqCalls)

SeqContractLast == HasLast /\ StartContract(Caller, hist[Len(hist)].res, MaxSeqCalls)

SeqPreview == \E t \in SeqPreviewTexts : StartPreview(Caller, t, 1, MaxSeqCalls)

SeqAdd == \E a \in SeqAdds : StartAdd(Caller, a[1], a[2], MaxSeqCalls)

SeqRemove == \E k \in SeqRemoves : StartRemove(Caller, k, MaxSeqCalls)

NextSeq ==
  \/ SeqFix \/ SeqFixLast \/ SeqContractLast \/ SeqPreview
  \/ SeqAdd \/ SeqRemove
  \/ Step(Caller)
  \/ Return(Caller, TRUE)

SpecSeq == InitSeq /\ [][NextSeq]_vars

\* every call that started has returned
Settled == Len(hist) = calls

(***************************************************************************)
(* C5: in a sequential history every fix(t) and contract(t) returns what   *)
(* an uncached scan over the tables current at the call returns, and once  *)
(* a mutation has returned no result memoized before it is left.           *)
(***************************************************************************)
C5_CacheTransparent ==
  LET f == frames[Caller]
  IN  f.pc = "return" =>
        /\ f.op = "fix" => f.res = FixRef(combined_dict, f.text)
        /\ f.op = "contract" => f.res = ContractRef(reverse_dict, f.text)
        /\ f.op \in MutationOps => fix_cache = << >> /\ contract_cache = << >>

\* fix("yw") gave "you're welcome", remove_contraction("yw") ran, and the
\* same fix now returns "yw"
C5_Witness ==
  LET f == frames[Caller]
  IN  /\ f.pc = "return" /\ f.op = "fix" /\ f.text = yw /\ f.res = yw
      /\ Len(hist) = 2
      /\ hist[1].op = "fix" /\ hist[1].arg = yw /\ hist[1].res = youre_welcome
      /\ hist[2].op = "remove_contraction"

(***************************************************************************)
(* C6: the number of memoized fix results, and of memoized contract        *)
(* results, never exceeds the cache_size given at construction.            *)
(***************************************************************************)
C6_CacheBounded ==
  /\ Len(fix_cache) <= cache_size
  /\ Len(contract_cache) <= cache_size

(***************************************************************************)
(* Closed tables.  A table is closed when one pass of fix leaves nothing   *)
(* that a second pass could replace: keys and expansions begin and end     *)
(* with a word character, and no key can be laid over an expansion so that *)
(* it would match there.                                                   *)
(***************************************************************************)
IsMonthKey(k) == k \in DOMAIN MonthEntries

\* word characters and apostrophes only, a word character at both ends
KeyOk(k) ==
  /\ Len(k) > 0
  /\ IsWordCh(k[1]) /\ IsWordCh(k[Len(k)])
  /\ \A i \in 1..Len(k) : IsWordCh(k[i]) \/ k[i] = "'"

ExpOk(e) == Len(e) > 0 /\ IsWordCh(e[1]) /\ IsWordCh(e[Len(e)])

\* The characters of k and e agree, ignoring case, where k shifted by d
\* lies over e.
AgreeAt(k, e, d) ==
  \A j \in 1..Len(k) :
    (d + j >= 1 /\ d + j <= Len(e)) => LowerCh[k[j]] = LowerCh[e[d + j]]

\* Key k, shifted by d, could match in a text that holds e where fix put it.
\* The character before e is not a word character; the one after e is a
\* word character exactly for the expansion of a month abbreviation
\* (e_month).  A month abbreviation (k_month) ends in "." and so needs a
\* word character after it; every other key needs none.
OverlayAt(k, k_month, e, e_month, d) ==
  LET last == d + Len(k)
  IN  /\ AgreeAt(k, e, d)
      /\ d > 0 => ~ IsWordCh(e[d])
      /\ d < 0 => ~ IsWordCh(k[-d])
      /\ IF last < Len(e) THEN IsWordCh(e[last + 1]) = k_month
         ELSE IF last = Len(e) THEN k_month = e_month
         ELSE IsWordCh(k[Len(e) - d + 1]) = e_month

CanOverlay(k, k_month, e, e_month) ==
  \E d \in (1 - Len(k))..(Len(e) - 1) : OverlayAt(k, k_month, e, e_month, d)

\* a key that fix can leave in the text: it ends in 's and its base is in
\* neither fixed set
MayStay(k) ==
  /\ EndsWith(k, <<"'", "s">>)
  /\ Slice(k, 0, Len(k) - 2) \notin CONTRACTION_BASES \cup TIME_WORDS

\* k agrees with the text of k2 from the start of a later word of k2, and
\* where it runs past the end of k2 it goes on with a non-word character
StartsInside(k, k2) ==
  \E d \in 1..(Len(k2) - 1) :
    /\ ~ IsWordCh(k2[d]) /\ IsWordCh(k2[d + 1])
    /\ AgreeAt(k, k2, d)
    /\ d + Len(k) > Len(k2) => ~ IsWordCh(k[Len(k2) - d + 1])

ClosedTable(cd) ==
  /\ \A k \in DOMAIN cd :
       IF IsMonthKey(k) THEN cd[k] = MonthEntries[k]
       ELSE KeyOk(k) /\ ExpOk(cd[k])
  /\ \A k, k2 \in DOMAIN cd :
       /\ ~ CanOverlay(k, IsMonthKey(k), cd[k2], IsMonthKey(k2))
       /\ MayStay(k2) => ~ StartsInside(k, k2)

\* the last two calls were fix(t) and fix of its result
FixTwice ==
  /\ Settled /\ Len(hist) >= 2
  /\ hist[Len(hist) - 1].op = "fix" /\ hist[Len(hist)].op = "fix"
  /\ hist[Len(hist)].arg = hist[Len(hist) - 1].res

(***************************************************************************)
(* C7, as stated: fix(fix(t)) = fix(t) for every text t on every engine    *)
(* state reached by construction and add_contraction / remove_contraction. *)
(***************************************************************************)
C7_Idempotent ==
  FixTwice => hist[Len(hist)].res = hist[Len(hist) - 1].res

(***************************************************************************)
(* C7, amended: fix(fix(t)) = fix(t) for every text t on every engine      *)
(* state whose merged table is closed.                                     *)
(***************************************************************************)
C7_IdempotentOnClosedTable ==
  FixTwice /\ ClosedTable(combined_dict) =>
    hist[Len(hist)].res = hist[Len(hist) - 1].res

\* remove_contraction("yw") left a closed table, fix changed its text, and
\* fix ran again on the result
C7_Witness ==
  /\ FixTwice /\ ClosedTable(combined_dict)
  /\ Len(hist) = 3 /\ hist[1].op = "remove_contraction"
  /\ hist[2].res # hist[2].arg
  /\ hist[3].res = hist[2].res

(***************************************************************************)
(* Round trips: the last three calls were fix(t), contract of its result   *)
(* and fix of that.                                                        *)
(***************************************************************************)
RoundTrip ==
  /\ Settled /\ Len(hist) >= 3
  /\ hist[Len(hist) - 2].op = "fix"
  /\ hist[Len(hist) - 1].op = "contract"
  /\ hist[Len(hist) - 1].arg = hist[Len(hist) - 2].res
  /\ hist[Len(hist)].op = "fix"
  /\ hist[Len(hist)].arg = hist[Len(hist) - 1].res

\* what fix and contract find in a text with the tables as they are
ForwardMatches(text) ==
  FixMatches(CompilePattern(DOMAIN combined_dict), combined_dict, text)

ReverseMatches(text) ==
  ContractMatches(CompileReversePattern(DOMAIN reverse_dict), reverse_dict, text)

\* every contraction that fix expands in text has its expansion in the
\* reverse table
InSafeReverseSet(text) ==
  LET ms == ForwardMatches(text)
  IN  \A i \in DOMAIN ms :
        ms[i].r.hit => Lower(ms[i].r.stored) \in DOMAIN reverse_dict

\* k, starting before c or at its start and running past its end, could
\* match in a text that holds c where contract put it
OverlayLeft(k, k_month, c) ==
  \E d \in (1 - Len(k))..0 :
    /\ d = 0 => Len(k) > Len(c)
    /\ OverlayAt(k, k_month, c, FALSE, d)

\* The reverse table agrees with the merged table: each of its values is a
\* key whose stored expansion is the reverse key itself, fix does not take
\* it for a possessive, and no other key reaches over it.
ReverseConsistent(cd, rd) ==
  \A e \in DOMAIN rd :
    LET c == rd[e]
    IN  /\ Has(cd, c) /\ cd[c] = e
        /\ KeyOk(c) /\ ExpOk(e)
        /\ EndsWith(c, <<"'", "s">>) => _is_contraction_s_optimized(c)
        /\ \A k \in DOMAIN cd : ~ OverlayLeft(k, IsMonthKey(k), c)

\* the phrases that contract replaces in text are written in lower case
LowerCasePhrases(text) ==
  LET ms == ReverseMatches(text)
  IN  \A i \in DOMAIN ms : ms[i].text = Lower(ms[i].text)

OnlyFirstUpper(s) ==
  /\ s[1] \in UpperChars
  /\ \A i \in 2..Len(s) : s[i] \notin UpperChars

FirstUpperRestAsStored(stored) == << UpperCh[stored[1]] >> \o Tail(stored)

StatedCase(matched_text, stored) ==
  IF IsUpper(matched_text) THEN Upper(stored)
  ELSE IF OnlyFirstUpper(matched_text) THEN FirstUpperRestAsStored(stored)
  ELSE stored

\* the matches that the calls of hist with an operation in ops scanned
MatchesOf(ops) ==
  UNION { { hist[i].matches[j] : j \in DOMAIN hist[i].matches } :
            i \in { n \in DOMAIN hist : hist[n].op \in ops } }

(***************************************************************************)
(* C9: whenever fix or contract replaces a matched span by a stored value, *)
(* the replacement is the stored value in upper case when the match is all *)
(* upper case, the stored value with only its first letter upper-cased and *)
(* the rest as stored when only the first letter of the match is upper     *)
(* case, and the stored value unchanged otherwise.                         *)
(***************************************************************************)
C9_CasePreserved ==
  \A m \in MatchesOf({ "fix", "contract" }) :
    m.r.hit => m.r.out = StatedCase(m.text, m.r.stored)

(***************************************************************************)
(* The possessive rule.                                                    *)
(***************************************************************************)
EndsInApostropheS(word) == EndsWith(word, <<"'", "s">>)

BaseOf(word) == Lower(Slice(word, 0, Len(word) - 2))

InFixedSets(base) == base \in CONTRACTION_BASES \cup TIME_WORDS

EndsLikePossessive(base) ==
  \/ EndsWith(base, <<"s">>) \/ EndsWith(base, <<"x">>) \/ EndsWith(base, <<"z">>)
  \/ EndsWith(base, <<"c", "h">>) \/ EndsWith(base, <<"s", "h">>)

(***************************************************************************)
(* C10, as stated: fix replaces a matched token ending in 's only when its *)
(* lower-cased base is in the pronoun set or the time-word set; every      *)
(* other such token is left unchanged, even if the table holds it.         *)
(***************************************************************************)
C10_OnlyFixedSetsReplaced ==
  \A m \in MatchesOf({ "fix" }) :
    EndsInApostropheS(m.text) => (m.r.hit <=> InFixedSets(BaseOf(m.text)))

(***************************************************************************)
(* C10, amended: fix replaces a matched token ending in 's when its        *)
(* lower-cased base is in the pronoun set or the time-word set and also,   *)
(* outside these sets, when the token has at least three characters, the   *)
(* base does not end in s, x, z, ch or sh and the first character of the   *)
(* token is not upper case; it leaves the token unchanged in every other   *)
(* case.                                                                   *)
(***************************************************************************)
C10_LowerCaseOtherBaseReplaced ==
  \A m \in MatchesOf({ "fix" }) :
    EndsInApostropheS(m.text) =>
      ( m.r.hit <=>
          \/ InFixedSets(BaseOf(m.text))
          \/ /\ Len(m.text) >= 3
             /\ ~ EndsLikePossessive(BaseOf(m.text))
             /\ m.text[1] \notin UpperChars )

\* add_contraction("dog's", "dog is") ran and fix("dog's") gave "dog is"
C10_Witness ==
  /\ \E i \in DOMAIN hist : hist[i].op = "add_contraction" /\ hist[i].arg = dogs
  /\ \E m \in MatchesOf({ "fix" }) :
       m.text = dogs /\ m.r.hit /\ m.r.out = dog_is

(***************************************************************************)
(* SpecApi: one caller uses the whole public interface of one engine, one  *)
(* call at a time: fix, contract, preview, the two batch methods and the   *)
(* two mutations, the mutations also with a key written with the           *)
(* typographic apostrophe and with the empty string as key.                *)
(***************************************************************************)
y        == <<"y">>
why      == <<"w", "h", "y">>
y_n      == <<"y", "/", "n">>
yes_or_no == <<"y", "e", "s", " ", "o", "r", " ", "n", "o">>
gonna    == <<"g", "o", "n", "n", "a">>
going_to == <<"g", "o", "i", "n", "g", " ", "t", "o">>
goinT    == <<"g", "o", "i", "n", Typographic>>
going    == <<"g", "o", "i", "n", "g">>
empty    == << >>
x        == <<"x">>
its_gonna == <<"i", "t", "'", "s", " ", "g", "o", "n", "n", "a">>
Y_ALL_xits_Y_N == <<"Y", "'", "A", "L", "L", " ", "x", "i", "t", "'", "s", " ", "Y", "/", "N">>
goinTx_bosss == <<"g", "o", "i", "n", Typographic, "x", " ", "b", "o", "s", "s", "'", "s">>

StandardApi == << << its, it_is >>, << yall, you_all >> >>

SlangApi == << << y, why >>, << y_n, yes_or_no >> >>

MaxApiCalls == 3

ApiFixTexts == { its_gonna, Y_ALL_xits_Y_N, goinTx_bosss, empty }

ApiContractTexts == { boss_is }

ApiPreviewTexts == { Y_ALL_xits_Y_N }

ApiFixBatches == { << >>, << its_gonna, its_gonna >>, << its_gonna, empty >> }

ApiContractBatches == { << boss_is, boss_is >> }

ApiAdds == { << gonna, going_to >>, << bosss, boss_is >>, << goinT, going >>,
             << empty, x >> }

ApiRemoves == { gonna }

InitApi ==
  InitEngine(Construct(StandardApi, << >>, SlangApi, FALSE, TRUE), DefaultCacheSize)

ApiFix == \E t \in ApiFixTexts : StartFix(Caller, t, MaxApiCalls)

ApiContract == \E t \in ApiContractTexts : StartContract(Caller, t, MaxApiCalls)

ApiPreview == \E t \in ApiPreviewTexts : StartPreview(Caller, t, 1, MaxApiCalls)

ApiFixBatch == \E ts \in ApiFixBatches : StartFixBatch(Caller, ts, MaxApiCalls)

ApiContractBatch ==
  \E ts \in ApiContractBatches : StartContractBatch(Caller, ts, MaxApiCalls)

ApiAdd == \E a \in ApiAdds : StartAdd(Caller, a[1], a[2], MaxApiCalls)

ApiRemove == \E k \in ApiRemoves : StartRemove(Caller, k, MaxApiCalls)

NextApi ==
  \/ ApiFix \/ ApiContract \/ ApiPreview \/ ApiFixBatch \/ ApiContractBatch
  \/ ApiAdd \/ ApiRemove
  \/ Step(Caller)
  \/ BatchStep(Caller)
  \/ Return(Caller, TRUE)

SpecApi == InitApi /\ [][NextApi]_vars

\* fix(text) and contract(text) raise on the tables as they are
FixRaises(cd, text) == SubRaises(FixMatches(CompilePattern(DOMAIN cd), cd, text))

ContractRaises(rd, text) ==
  SubRaises(ContractMatches(CompileReversePattern(DOMAIN rd), rd, text))

\* what a call of fix(text) returns or raises, as a record
FixOutcome(cd, text) ==
  IF FixRaises(cd, text) THEN [ raised |-> TRUE, res |-> << >> ]
  ELSE [ raised |-> FALSE, res |-> FixRef(cd, text) ]

ContractOutcome(rd, text) ==
  IF ContractRaises(rd, text) THEN [ raised |-> TRUE, res |-> << >> ]
  ELSE [ raised |-> FALSE, res |-> ContractRef(rd, text) ]

\* the outcome of [single(t) for t in texts]: the list of the results, or
\* the exception of the first call that raises
ListOutcome(single(_), texts) ==
  IF \E i \in DOMAIN texts : single(texts[i]).raised
  THEN [ raised |-> TRUE, res |-> << >> ]
  ELSE [ raised |-> FALSE, res |-> [ i \in DOMAIN texts |-> single(texts[i]).res ] ]

\* the outcome of the call that is about to return
Outcome(f) == [ raised |-> f.raised, res |-> f.res ]

(***************************************************************************)
(* C11: fix_batch(texts) gives, element by element and in the same order,  *)
(* what fix gives for each text, and contract_batch(texts) what contract   *)
(* gives, for the empty list and for lists with repeated texts, whatever   *)
(* the memo cache holds: each of the four methods ends as the uncached     *)
(* scan of its text or texts does.                                         *)
(***************************************************************************)
C11_BatchEqualsIndividual ==
  LET f == frames[Caller]
      fix1(t) == FixOutcome(combined_dict, t)
      contract1(t) == ContractOutcome(reverse_dict, t)
  IN  f.pc = "return" =>
        /\ f.op = "fix" => Outcome(f) = fix1(f.text)
        /\ f.op = "contract" => Outcome(f) = contract1(f.text)
        /\ f.op = "fix_batch" => Outcome(f) = ListOutcome(fix1, f.texts)
        /\ f.op = "contract_batch" => Outcome(f) = ListOutcome(contract1, f.texts)

\* fix_batch of a list that holds one text twice returns two equal results,
\* the second one from the cache, after the empty list gave the empty list
C11_Witness ==
  LET f == frames[Caller]
  IN  /\ f.pc = "return" /\ f.op = "fix_batch" /\ ~ f.raised
      /\ f.texts = << its_gonna, its_gonna >>
      /\ f.cached /\ Len(f.res) = 2 /\ f.res[1] = f.res[2] /\ f.res[1] # its_gonna
      /\ \E i \in DOMAIN hist :
           hist[i].op = "fix_batch" /\ hist[i].texts = << >> /\ hist[i].res = << >>

(***************************************************************************)
(* The effect of a mutation on fix.                                        *)
(***************************************************************************)
\* k occurs in text at s as a whole word: no word character touches it
WholeWordAt(k, text, s) ==
  /\ KeyMatchesAt(k, text, s)
  /\ NoWordAround(text, s, s + Len(k))

\* what the scan of fix finds in text on the tables tabs
MatchesOn(tabs, text) ==
  FixMatches(CompilePattern(DOMAIN tabs.combined_dict), tabs.combined_dict, text)

\* the matches of ms that replace a key other than k, as spans with their
\* replacements
OtherSpans(ms, k) ==
  { [ start |-> ms[i].start, end |-> ms[i].end, out |-> ms[i].r.out ] :
      i \in { j \in DOMAIN ms : Lower(ms[j].text) # k } }

\* a match of ms has a character in common with the span from s to e
Overlapped(ms, s, e) == \E i \in DOMAIN ms : ms[i].start < e /\ s < ms[i].end

\* a fix is returning and the call before it was add_contraction(k, e), for
\* a k that the merged table did not hold
FixAfterAdd ==
  /\ frames[Caller].pc = "return" /\ frames[Caller].op = "fix"
  /\ Len(hist) >= 1
  /\ hist[Len(hist)].op = "add_contraction"
  /\ ~ Has(hist[Len(hist)].before.combined_dict, hist[Len(hist)].arg)

\* a fix is returning and the two calls before it were add_contraction(k, e)
\* for an absent k and remove_contraction(k)
FixAfterAddRemove ==
  /\ frames[Caller].pc = "return" /\ frames[Caller].op = "fix"
  /\ Len(hist) >= 2
  /\ hist[Len(hist) - 1].op = "add_contraction"
  /\ hist[Len(hist)].op = "remove_contraction"
  /\ hist[Len(hist)].arg = hist[Len(hist) - 1].arg
  /\ ~ Has(hist[Len(hist) - 1].before.combined_dict, hist[Len(hist) - 1].arg)

\* a key written with word characters and ASCII apostrophes
AsciiKey(k) ==
  /\ Len(k) > 0
  /\ \A i \in 1..Len(k) : IsWordCh(k[i]) \/ k[i] = "'"

\* a key that is one word: word characters only
PlainWord(k) == Len(k) > 0 /\ \A i \in 1..Len(k) : IsWordCh(k[i])

HasApostrophe(k) == Contains(k, "'") \/ Contains(k, Typographic)

\* k with each apostrophe written with the other glyph
OtherSpelling(k) ==
  [ i \in 1..Len(k) |-> IF k[i] = "'" THEN Typographic
                        ELSE IF k[i] = Typographic THEN "'"
                        ELSE k[i] ]

(***************************************************************************)
(* C13: after construction and after every add_contraction and             *)
(* remove_contraction, each key of the merged table that holds an          *)
(* apostrophe has its other spelling (ASCII or typographic apostrophe) in  *)
(* the table too, with the same expansion.                                 *)
(***************************************************************************)
C13_BothSpellings ==
  Quiescent =>
    \A k \in DOMAIN combined_dict :
      HasApostrophe(k) =>
        /\ Has(combined_dict, OtherSpelling(k))
        /\ combined_dict[OtherSpelling(k)] = combined_dict[k]

(***************************************************************************)
(* Eligible keys: the keys that match at a position with the boundary      *)
(* conditions of their partition.                                          *)
(***************************************************************************)
Eligible(k, text, s) ==
  /\ KeyMatchesAt(k, text, s)
  /\ IF Contains(k, "'")
     THEN NoWordAround(text, s, s + Len(k))
     ELSE WordBoundary(text, s) /\ WordBoundary(text, s + Len(k))

EligibleAt(text, s) == { k \in DOMAIN combined_dict : Eligible(k, text, s) }

\* the spans that the scan of the returning fix or preview call found
ScannedSpans(f) ==
  IF f.op = "preview"
  THEN { [ start |-> f.res[i].start, end |-> f.res[i].end ] : i \in DOMAIN f.res }
  ELSE { [ start |-> f.matches[i].start, end |-> f.matches[i].end ] :
           i \in DOMAIN f.matches }

\* a fix or a preview is returning from a scan (not from the cache)
ScanReturns ==
  /\ frames[Caller].pc = "return" /\ frames[Caller].op \in { "fix", "preview" }
  /\ ~ frames[Caller].cached

(***************************************************************************)
(* C14: at each position of the text that the scan reaches (a position     *)
(* that is not inside an earlier match) where keys of the merged table     *)
(* match, ignoring case, with their boundary conditions satisfied, the     *)
(* forward matcher reports one match, and it is the longest of these keys, *)
(* whichever partitions they belong to.                                    *)
(***************************************************************************)
C14_LongestKeySelected ==
  ScanReturns =>
    LET f == frames[Caller]
        spans == ScannedSpans(f)
    IN  \A s \in 0..Len(f.text) :
          LET ks == EligibleAt(f.text, s)
          IN  /\ (ks # {} /\ ~ \E m \in spans : m.start < s /\ s < m.end) =>
                   \E m \in spans : m.start = s
              /\ \A m \in spans :
                   m.start = s =>
                     /\ ks # {}
                     /\ \A k \in ks : Len(k) <= m.end - m.start
                     /\ \E k \in ks : Len(k) = m.end - m.start

\* in "Y'ALL xit's Y/N" the keys "y" and "y'all", of different partitions,
\* are eligible at 0 and "y" and "y/n", of one partition, at 12; fix took
\* the longer key both times
C14_Witness ==
  LET f == frames[Caller]
  IN  /\ ScanReturns /\ f.op = "fix" /\ f.text = Y_ALL_xits_Y_N
      /\ { y, yall } \subseteq EligibleAt(f.text, 0)
      /\ { y, y_n } \subseteq EligibleAt(f.text, 12)
      /\ [ start |-> 0, end |-> 5 ] \in ScannedSpans(f)
      /\ [ start |-> 12, end |-> 15 ] \in ScannedSpans(f)
      /\ f.res = Upper(you_all) \o SubSeq(f.text, 6, 12) \o Upper(yes_or_no)

(***************************************************************************)
(* C15: a match of a key that holds an apostrophe (of either glyph) has no *)
(* word character right before it and none right after it, a match of a   *)
(* plain key has a word boundary on each side, and no match starts or ends *)
(* inside a run of word characters.                                        *)
(***************************************************************************)
C15_BoundaryRule ==
  ScanReturns =>
    LET f == frames[Caller]
    IN  \A m \in ScannedSpans(f) :
          LET matched_text == Slice(f.text, m.start, m.end)
          IN  /\ IF HasApostrophe(matched_text)
                 THEN NoWordAround(f.text, m.start, m.end)
                 ELSE WordBoundary(f.text, m.start) /\ WordBoundary(f.text, m.end)
              /\ ~ ( /\ m.start > 0 /\ m.end > m.start
                     /\ IsWordCh(f.text[m.start]) /\ IsWordCh(f.text[m.start + 1]) )
              /\ ~ ( /\ m.end < Len(f.text) /\ m.end > m.start
                     /\ IsWordCh(f.text[m.end]) /\ IsWordCh(f.text[m.end + 1]) )

(***************************************************************************)
(* C17: after construction and any add_contraction / remove_contraction    *)
(* calls, the empty string as key or expansion included, no call of fix,   *)
(* contract, preview, fix_batch or contract_batch ends with an exception.  *)
(***************************************************************************)
C17_NeverRaises == \A th \in Threads : ~ frames[th].raised

(***************************************************************************)
(* C20: after construction and after every add_contraction and             *)
(* remove_contraction, every key of the reverse table is an expansion of   *)
(* SAFE_CONTRACTIONS (in lower case, as the table keeps its keys) or one   *)
(* of the SAFE_INFORMAL words, and contract replaces no other phrase.      *)
(***************************************************************************)
AllowList ==
  SAFE_CONTRACTIONS \cup { Lower(e) : e \in SAFE_CONTRACTIONS } \cup DOMAIN SAFE_INFORMAL

C20_ReverseKeysAllowed ==
  /\ Quiescent => DOMAIN reverse_dict \subseteq AllowList
  /\ \A m \in MatchesOf({ "contract", "contract_batch" }) :
       m.r.hit => Lower(m.text) \in AllowList

(***************************************************************************)
(* SpecDrain: one caller removes the keys of an engine one after the       *)
(* other, each time the first key in the order of the matcher, until the   *)
(* merged table is empty, and calls fix, contract and preview on the way.  *)
(* The engine is built from a standard source with the one entry "it's",   *)
(* so the reverse table has one key and loses it with that entry.          *)
(***************************************************************************)
MaxDrainCalls == 14

DrainFixTexts == { its }

DrainContractTexts == { it_is }

DrainPreviewTexts == { its }

InitDrain ==
  InitEngine(Construct(StandardSmall, << >>, << >>, FALSE, FALSE), DefaultCacheSize)

DrainFix == \E t \in DrainFixTexts : StartFix(Caller, t, MaxDrainCalls)

DrainContract == \E t \in DrainContractTexts : StartContract(Caller, t, MaxDrainCalls)

DrainPreview == \E t \in DrainPreviewTexts : StartPreview(Caller, t, 1, MaxDrainCalls)

DrainRemove ==
  /\ DOMAIN combined_dict # {}
  /\ StartRemove(Caller, SortedKeys(DOMAIN combined_dict)[1], MaxDrainCalls)

\* the steps of the calls that SpecDrain makes
DrainStep(th) ==
  \/ FixLookup(th) \/ PatternCheck(th) \/ PatternSort(th) \/ PatternStore(th)
  \/ FixSub(th) \/ FixStore(th)
  \/ ContractLookup(th) \/ ReversePatternCheck(th) \/ ReversePatternSort(th)
  \/ ReversePatternStore(th) \/ ContractSub(th) \/ ContractStore(th)
  \/ PreviewLoop(th)
  \/ Acquire(th)
  \/ RemoveGet(th) \/ RemovePop(th) \/ RemovePopAlt(th) \/ RemoveReverse(th)
  \/ ClearPattern(th) \/ ClearReversePattern(th) \/ ClearFixCache(th)
  \/ ClearContractCache(th) \/ Release(th)

NextDrain ==
  \/ DrainFix \/ DrainContract \/ DrainPreview \/ DrainRemove
  \/ DrainStep(Caller)
  \/ Return(Caller, FALSE)

SpecDrain == InitDrain /\ [][NextDrain]_vars

(***************************************************************************)
(* C16: with an empty merged table fix returns its text unchanged, having  *)
(* matched at no position, and preview returns the empty list; with an     *)
(* empty reverse table contract returns its text unchanged; none raises.   *)
(***************************************************************************)
C16_EmptyTableMatchesNothing ==
  LET f == frames[Caller]
  IN  f.pc = "return" =>
        /\ (f.op = "fix" /\ DOMAIN combined_dict = {}) =>
             ~ f.raised /\ f.matches = << >> /\ f.res = f.text
        /\ (f.op = "preview" /\ DOMAIN combined_dict = {}) =>
             ~ f.raised /\ f.res = << >>
        /\ (f.op = "contract" /\ DOMAIN reverse_dict = {}) =>
             ~ f.raised /\ f.matches = << >> /\ f.res = f.text

\* every key has been removed, the matcher has been compiled from no key,
\* and preview("it's") returns from its scan
C16_Witness ==
  LET f == frames[Caller]
  IN  /\ DOMAIN combined_dict = {} /\ DOMAIN reverse_dict = {}
      /\ f.pc = "return" /\ f.op = "preview" /\ f.text = its
      /\ f.pat.valid /\ PatternKeys(f.pat) = {}
      /\ _pattern = f.pat

(***************************************************************************)
(* __init__, statement by statement, over package data of every kind.      *)
(* A file is missing (pkgutil.get_data returns None), unreadable (reading  *)
(* or decoding raises), invalid_json, not_object (JSON that is no object)  *)
(* or an object with its pairs in file order.                              *)
(***************************************************************************)
FileKinds == { "missing", "unreadable", "invalid_json", "not_object", "object" }

Object(pairs) == [ kind |-> "object", pairs |-> pairs ]

Broken(kind) == [ kind |-> kind, pairs |-> << >> ]

\* a JSON value that is not a string
NotAStr == << "number" >>

Tis       == <<"'", "T", "i", "s">>
It_is     == <<"I", "t", " ", "i", "s">>
tis_plain == <<"t", "i", "s">>
aint      == <<"a", "i", "n", "'", "t">>
arent     == <<"a", "r", "e", "n", "'", "t">>
are_not   == <<"a", "r", "e", " ", "n", "o", "t">>
apos_s    == <<"'", "s">>
ITS       == <<"I", "T", "'", "S">>
it_has    == <<"i", "t", " ", "h", "a", "s">>

\* five standard entries: two expansions of the allow-list, each with
\* several contractions, one of them apostrophe-prefixed, one without
\* apostrophe
SharedPool ==
  { << its, it_is >>, << Tis, It_is >>, << tis_plain, it_is >>,
    << aint, are_not >>, << arent, are_not >> }

\* the orders in which a file can list the pairs of S
Orders(S) ==
  { f \in [ 1..Cardinality(S) -> S ] :
      \A i, j \in 1..Cardinality(S) : i # j => f[i] # f[j] }

BuildStandardFiles ==
  { Object(o) : o \in Orders(SharedPool) }
  \cup { Object(<< >>),
         Object(<< << Tis, It_is >> >>),
         Object(<< << apos_s, it_is >> >>),
         Object(<< << its, it_has >>, << ITS, it_is >> >>),
         Object(<< << its, NotAStr >> >>) }
  \cup { Broken(k) : k \in FileKinds \ { "object" } }

BuildInformalFiles ==
  { Broken("missing"), Broken("invalid_json"),
    Object(<< << gonna, going_to >> >>), Object(<< << gonna, NotAStr >> >>) }

BuildSlangFiles ==
  { Broken("unreadable"), Broken("not_object"), Object(<< << yw, you_are >> >>) }

InitBuild ==
  /\ combined_dict = EmptyDict
  /\ reverse_dict = EmptyDict
  /\ _pattern = NoPattern
  /\ _reverse_pattern = NoPattern
  /\ fix_cache = << >>
  /\ contract_cache = << >>
  /\ _lock = 0
  /\ cache_size = DefaultCacheSize
  /\ calls = 0
  /\ serial = NoTables
  /\ hist = << >>
  /\ self = DefaultInstance
  /\ others = NoOthers
  /\ \E st \in BuildStandardFiles, inf \in BuildInformalFiles,
        sl \in BuildSlangFiles, ui \in BOOLEAN, us \in BOOLEAN :
       frames = [ th \in Threads |->
                  IF th = Caller
                  THEN [ IdleFrame EXCEPT
                           !.op = "__init__", !.pc = "init_standard",
                           !.flags = [ use_informal |-> ui, use_slang |-> us ],
                           !.files = [ standard |-> st, informal |-> inf,
                                       slang |-> sl ] ]
                  ELSE IdleFrame ]

\* a loader that takes a missing file for an empty object
LoadFails_MissingOk(file) == file.kind \notin { "object", "missing" }

\* _load_dict_optimized, lines 103-114: every failure leaves by a raise
LoadFails(file) == file.kind # "object"

\* one call of _load_dict_optimized in __init__
InitLoad(th, name, next) ==
  LET f == frames[th]
      read == Append(f.loaded.read, name)
  IN  IF LoadFails(f.files[name])
      THEN frames' = [ frames EXCEPT ![th].pc = "init_except",
                                     ![th].loaded.read = read ]
      ELSE frames' = [ frames EXCEPT
                         ![th].pc = next,
                         ![th].loaded =
                           [ f.loaded EXCEPT
                               ![name] = _load_dict_optimized(f.files[name].pairs),
                               !.read = read ] ]

BuildFrame ==
  UNCHANGED << combined_dict, reverse_dict, _pattern, _reverse_pattern,
               fix_cache, contract_cache, _lock, cache_size, calls, serial,
               hist,
                  self, others >>

\* __init__, line 74
InitLoadStandard(th) ==
  /\ frames[th].pc = "init_standard"
  /\ InitLoad(th, "standard", "init_informal")
  /\ BuildFrame

\* __init__, line 75
InitLoadInformal(th) ==
  /\ frames[th].pc = "init_informal"
  /\ IF frames[th].flags.use_informal
     THEN InitLoad(th, "informal", "init_slang")
     ELSE Goto(th, "init_slang")
  /\ BuildFrame

\* __init__, line 76
InitLoadSlang(th) ==
  /\ frames[th].pc = "init_slang"
  /\ IF frames[th].flags.use_slang
     THEN InitLoad(th, "slang", "init_combine")
     ELSE Goto(th, "init_combine")
  /\ BuildFrame

\* __init__, lines 79-86
InitCombine(th) ==
  /\ frames[th].pc = "init_combine"
  /\ LET f  == frames[th]
         c1 == Update(DictOf(f.loaded.standard), MonthEntries)
         c2 == IF f.flags.use_informal
               THEN Update(c1, DictOf(f.loaded.informal)) ELSE c1
         c3 == IF f.flags.use_slang
               THEN Update(c2, DictOf(f.loaded.slang)) ELSE c2
     IN  combined_dict' = c3
  /\ Goto(th, "init_reverse")
  /\ UNCHANGED << reverse_dict, _pattern, _reverse_pattern, fix_cache,
                  contract_cache, _lock, cache_size, calls, serial, hist,
                  self, others >>

\* __init__, line 89
InitReverse(th) ==
  /\ frames[th].pc = "init_reverse"
  /\ LET f == frames[th]
     IN  IF ReverseLoopRaises(f.loaded.standard)
         THEN /\ reverse_dict' = reverse_dict
              /\ Goto(th, "init_except")
         ELSE /\ reverse_dict' =
                   _build_reverse_dict_optimized(f.loaded.standard,
                                                 f.flags.use_informal)
              /\ Goto(th, "init_alt")
  /\ UNCHANGED << combined_dict, _pattern, _reverse_pattern, fix_cache,
                  contract_cache, _lock, cache_size, calls, serial, hist,
                  self, others >>

\* __init__, lines 92-96: _add_alt_apostrophes_optimized, and the engine is
\* the caller's
InitAlt(th) ==
  /\ frames[th].pc = "init_alt"
  /\ combined_dict' = Update(combined_dict, AltContractions(combined_dict))
  /\ reverse_dict' = Update(reverse_dict, AltReverse(reverse_dict))
  /\ serial' = Tables(combined_dict', reverse_dict')
  /\ Goto(th, "return")
  /\ UNCHANGED << _pattern, _reverse_pattern, fix_cache, contract_cache,
                  _lock, cache_size, calls, hist,
                  self, others >>

\* __init__, lines 98-99: whatever was raised leaves as one RuntimeError, and
\* the caller gets no engine
InitExcept(th) ==
  /\ frames[th].pc = "init_except"
  /\ frames' = [ frames EXCEPT ![th].pc = "return", ![th].raised = TRUE ]
  /\ BuildFrame

NextBuild ==
  \/ InitLoadStandard(Caller) \/ InitLoadInformal(Caller)
  \/ InitLoadSlang(Caller) \/ InitCombine(Caller) \/ InitReverse(Caller)
  \/ InitAlt(Caller) \/ InitExcept(Caller) \/ Return(Caller, TRUE)

SpecBuild == InitBuild /\ [][NextBuild]_vars

\* a call of __init__ that has come to its end
Built == frames[Caller].op = "__init__" /\ frames[Caller].pc = "return"

\* the files __init__ is to load under its flags
ToLoad(flags) ==
  { "standard" } \cup (IF flags.use_informal THEN { "informal" } ELSE {})
                 \cup (IF flags.use_slang THEN { "slang" } ELSE {})

\* C18: construction reads the standard file always and the informal and
\* slang files only under their flag; it raises, and returns no engine, when a
\* file it is to load is missing, unreadable, invalid JSON or no JSON object,
\* whatever the state of a file whose flag is off; it succeeds when the files
\* it is to load are objects of strings, and only when they are objects, and
\* the engine then holds the tables of exactly the loaded files.
C18_LoadFailureRaises ==
  Built =>
    LET f == frames[Caller]
        want == ToLoad(f.flags)
        read == { f.loaded.read[i] : i \in DOMAIN f.loaded.read }
        bad  == { n \in want : f.files[n].kind # "object" }
        strs == \A n \in want :
                  \A i \in DOMAIN f.files[n].pairs : IsStr(f.files[n].pairs[i][2])
    IN  /\ read \subseteq want
        /\ bad # {} => f.raised
        /\ bad = {} /\ strs => ~ f.raised
        /\ f.raised <=> \/ bad # {}
                        \/ \E i \in DOMAIN f.files.standard.pairs :
                             ~ IsStr(f.files.standard.pairs[i][2])
        /\ ~ f.raised =>
             /\ read = want
             /\ Tables(combined_dict, reverse_dict)
                  = Construct(f.files.standard.pairs, f.files.informal.pairs,
                              f.files.slang.pairs, f.flags.use_informal,
                              f.flags.use_slang)
             /\ DOMAIN combined_dict
                  = UNION { { Lower(f.files[n].pairs[i][1]) :
                                i \in DOMAIN f.files[n].pairs } : n \in want }
                    \cup DOMAIN MonthEntries

\* construction over a good standard file, a missing informal file that it
\* is to load and a broken slang file that it is not to load: the slang file
\* is never read, and the missing file makes construction raise
C18_Witness ==
  LET f == frames[Caller]
  IN  /\ Built /\ f.raised
      /\ f.files.standard.kind = "object"
      /\ f.flags.use_informal /\ f.files.informal.kind = "missing"
      /\ ~ f.flags.use_slang /\ f.files.slang.kind = "not_object"
      /\ f.loaded.read = << "standard", "informal" >>

\* the candidates of expansion e: the contractions of the standard table
\* with that expansion that hold an apostrophe and have more than two
\* characters
Candidates(standard, e) ==
  { standard[i][1] : i \in { j \in DOMAIN standard :
                               /\ Lower(standard[j][2]) = e
                               /\ Contains(standard[j][1], "'")
                               /\ Len(standard[j][1]) > 2 } }

Prefixed(c) == c[1] = "'"

w_slash      == <<"w", "/">>
with         == <<"w", "i", "t", "h">>
w            == <<"w">>
jan_dot      == <<"j", "a", "n", ".">>
Its_w_you    == <<"I", "t", "'", "s", " ", "w", "/", " ", "y", "o", "u">>
jan5_jan     == <<"j", "a", "n", ".", "5", " ", "J", "a", "n", ".">>
BOSSS_bosss  == <<"B", "O", "S", "S", "'", "S", " ", "B", "O", "S", "S", "'", "s">>
DogS_dogs    == <<"d", "o", "g", "'", "S", " ", "d", "o", "g", "'", "s">>
no           == <<"n", "o">>

StandardText == << << its, it_is >>, << dogs, dog_is >> >>

SlangText == << << w_slash, with >> >>

MaxTextCalls == 2

TextTexts == { Its_w_you, jan5_jan, BOSSS_bosss, DogS_dogs, no, empty }

ContextSizes == { 0, 1, 3 }

TextAdds == { << bosss, boss_is >>, << w, with >>, << empty, x >> }

InitText ==
  InitEngine(Construct(StandardText, << >>, SlangText, FALSE, TRUE), DefaultCacheSize)

TextFix == \E t \in TextTexts : StartFix(Caller, t, MaxTextCalls)

TextPreview ==
  \E t \in TextTexts, r \in ContextSizes : StartPreview(Caller, t, r, MaxTextCalls)

TextAdd == \E a \in TextAdds : StartAdd(Caller, a[1], a[2], MaxTextCalls)

\* the steps of the calls that SpecText makes
TextStep(th) ==
  \/ FixLookup(th) \/ PatternCheck(th) \/ PatternSort(th) \/ PatternStore(th)
  \/ FixSub(th) \/ FixStore(th)
  \/ PreviewLoop(th)
  \/ Acquire(th) \/ AddPut(th) \/ AddPutAlt(th) \/ AddReverse(th)
  \/ ClearPattern(th) \/ ClearReversePattern(th) \/ ClearFixCache(th)
  \/ ClearContractCache(th) \/ Release(th)

NextText ==
  \/ TextFix \/ TextPreview \/ TextAdd
  \/ TextStep(Caller)
  \/ Return(Caller, TRUE)

SpecText == InitText /\ [][NextText]_vars

\* a call of preview that has come to its return
PreviewReturns == frames[Caller].pc = "return" /\ frames[Caller].op = "preview"

\* text[a:b] of Python for 0 <= a
PySlice(text, lo, hi) ==
  [ i \in 1..(IF hi > lo THEN (IF hi > Len(text) THEN Len(text) ELSE hi) - lo ELSE 0)
      |-> text[lo + i] ]

\* C21: preview(text, r) with r >= 0 returns one record per match of the
\* forward matcher, in strictly increasing start order and with spans that do
\* not overlap; the text of a record is text[start:end] and its context is
\* text[max(0, start - r) : min(len(text), end + r)]; for r = 0 the context is
\* the matched text, and a text without matches, the empty text included,
\* gives the empty list.
C21_PreviewRecords ==
  PreviewReturns =>
    LET f   == frames[Caller]
        res == f.res
        r   == f.context_size
        n   == Len(f.text)
        ms  == FindIter(f.pat, f.text)
    IN  /\ ~ f.raised
        /\ Len(res) = Len(ms)
        /\ \A i \in DOMAIN res :
             /\ res[i].start = ms[i].start /\ res[i].end = ms[i].end
             /\ 0 <= res[i].start /\ res[i].start <= res[i].end /\ res[i].end <= n
             /\ res[i].text = PySlice(f.text, res[i].start, res[i].end)
             /\ res[i].context
                  = PySlice(f.text,
                            IF res[i].start - r < 0 THEN 0 ELSE res[i].start - r,
                            IF res[i].end + r > n THEN n ELSE res[i].end + r)
             /\ r = 0 => res[i].context = res[i].text
             /\ i > 1 => /\ res[i - 1].start < res[i].start
                         /\ res[i - 1].end <= res[i].start
        /\ (f.text = empty \/ ms = << >>) => res = << >>

\* preview("It's w/ you", 3) once "w" is a key: two records, the context of
\* the first clipped at the start of the text
C21_Witness ==
  LET f == frames[Caller]
  IN  /\ PreviewReturns
      /\ f.text = Its_w_you /\ f.context_size = 3
      /\ Len(f.res) = 2
      /\ f.res[1].context = <<"I", "t", "'", "s", " ", "w", "/">>
      /\ f.res[2].text = w

\* a fix that has run its scan and returns a result
FixScanned ==
  /\ frames[Caller].pc = "return" /\ frames[Caller].op = "fix"
  /\ ~ frames[Caller].cached /\ ~ frames[Caller].raised

\* plain keys that end in a character that is no word character
TrailingNonWordKeys(cd) ==
  { k \in DOMAIN cd : /\ Len(k) > 0
                      /\ ~ Contains(k, "'")
                      /\ ~ IsWordCh(k[Len(k)]) }

\* the places where key k stands in text, in any case, before the end of the
\* text or a character that is no word character
OccurrencesBeforeNonWord(k, text) ==
  { st \in 0..(Len(text) - Len(k)) :
      /\ Lower(PySlice(text, st, st + Len(k))) = k
      /\ (st + Len(k) = Len(text) \/ ~ IsWordCh(text[st + Len(k) + 1])) }

\* C25, as stated: fix leaves a plain key that ends in a character that is
\* no word character unchanged wherever the end of the text or a character
\* that is no word character follows it: no match that fix replaces
\* overlaps it.
C25_TrailingNonWordKeyUnchanged ==
  FixScanned =>
    LET f == frames[Caller]
    IN  \A k \in TrailingNonWordKeys(combined_dict) :
          \A st \in OccurrencesBeforeNonWord(k, f.text) :
            \A i \in DOMAIN f.matches :
              LET m == f.matches[i]
              IN  m.start < st + Len(k) /\ m.end > st => m.r.out = m.text

\* C25, amended: fix never matches a plain key that ends in a character that
\* is no word character where the end of the text or a character that is no
\* word character follows it; what fix replaces there, if anything, is the
\* match of another key that overlaps it.
C25_TrailingNonWordKeyNotMatched ==
  FixScanned =>
    LET f == frames[Caller]
    IN  \A k \in TrailingNonWordKeys(combined_dict) :
          \A st \in OccurrencesBeforeNonWord(k, f.text) :
            \A i \in DOMAIN f.matches :
              LET m == f.matches[i]
              IN  /\ ~ (m.start = st /\ m.end = st + Len(k))
                  /\ m.start < st + Len(k) /\ m.end > st => Lower(m.text) # k

\* fix("jan.5 Jan.") returns "january5 Jan.": the key is matched before a
\* digit and not at the end of the text
C25_Witness ==
  LET f == frames[Caller]
  IN  /\ FixScanned
      /\ f.text = jan5_jan
      /\ Has(combined_dict, jan_dot)
      /\ Len(f.matches) = 1
      /\ f.res = <<"j", "a", "n", "u", "a", "r", "y", "5", " ", "J", "a", "n", ".">>

\* C28: the replacement of each record of preview(text) is the string that
\* fix substitutes for the same span, with the verdict of the possessive
\* check and the case of the match.
C28_PreviewAsFix ==
  PreviewReturns =>
    \A i \in DOMAIN frames[Caller].res :
      LET rec == frames[Caller].res[i]
          r   == FixReplaceMatch(combined_dict, rec.text)
      IN  ~ r.raised => rec.replacement = r.out

\* the token with its last character in lower case
LowerSuffix(token) ==
  [ i \in DOMAIN token |-> IF i = Len(token) THEN LowerCh[token[i]] ELSE token[i] ]

\* C29: a token that ends in an apostrophe and an upper-case S is kept or
\* replaced by fix as the same token with a lower-case s is.
C29_SuffixCaseIgnored ==
  FixScanned =>
    LET f == frames[Caller]
    IN  \A i \in DOMAIN f.matches :
          LET m == f.matches[i]
          IN  EndsWith(m.text, <<"'", "S">>) =>
                (m.r.hit <=> FixReplaceMatch(combined_dict, LowerSuffix(m.text)).hit)

(***************************************************************************)
(* The life of the two matchers in a sequential history.                   *)
(***************************************************************************)
ForwardReaders == { "fix", "fix_batch", "preview" }

ReverseReaders == { "contract", "contract_batch" }

\* no call of a method of ops has returned since the last mutation returned
NoneSinceMutation(ops) ==
  \A i \in DOMAIN hist :
    hist[i].op \in ops => \E j \in (i + 1)..Len(hist) : hist[j].op \in MutationOps

MatcherStates ==
  LET f == frames[Caller]
  IN  /\ f.pc \notin LockedPcs => ForwardMatcherCurrent /\ ReverseMatcherCurrent
      /\ f.pc = "return" /\ f.op \in MutationOps =>
           ~ _pattern.valid /\ ~ _reverse_pattern.valid
      /\ f.pc = "return" /\ f.op \in { "fix", "preview" } =>
           /\ _pattern.valid
           /\ ~ f.cached => f.pat = _pattern
           /\ Len(hist) > 0 /\ NoneSinceMutation(ForwardReaders) => ~ f.cached
      /\ f.pc = "return" /\ f.op = "contract" =>
           /\ _reverse_pattern.valid
           /\ ~ f.cached => f.pat = _reverse_pattern
           /\ Len(hist) > 0 /\ NoneSinceMutation(ReverseReaders) => ~ f.cached

MatcherSteps ==
  LET f == frames[Caller]
  IN  /\ _pattern' # _pattern =>
           IF _pattern'.valid
           THEN /\ f.op \in ForwardReaders /\ ~ _pattern.valid
                /\ _reverse_pattern' = _reverse_pattern
           ELSE f.op \in MutationOps
      /\ _reverse_pattern' # _reverse_pattern =>
           IF _reverse_pattern'.valid
           THEN /\ f.op \in ReverseReaders /\ ~ _reverse_pattern.valid
                /\ _pattern' = _pattern
           ELSE f.op \in MutationOps
      /\ frames'[Caller].pc = "pattern_sort" => ~ _pattern.valid
      /\ frames'[Caller].pc = "reverse_pattern_sort" => ~ _reverse_pattern.valid

\* C22: in a sequential history a mutation returns with both matchers stale;
\* the first fix or preview after it compiles the forward matcher and leaves
\* the reverse one alone, the first contract after it compiles the reverse
\* matcher and leaves the forward one alone; outside the body of a mutation a
\* valid matcher has the key set of its table, and while it is valid it is
\* neither compiled again nor replaced: only a mutation changes it, to stale.
C22_MatcherLifecycle == [] MatcherStates /\ [][MatcherSteps]_vars

\* add_contraction, then fix, then preview: preview returns with the matcher
\* that fix compiled, and the reverse matcher is still stale
C22_Witness ==
  LET f == frames[Caller]
  IN  /\ Len(hist) = 2
      /\ hist[1].op = "add_contraction" /\ hist[2].op = "fix"
      /\ f.pc = "return" /\ f.op = "preview"
      /\ _pattern.valid /\ f.pat = _pattern
      /\ ~ _reverse_pattern.valid

(***************************************************************************)
(* SpecMut: one caller, one call at a time, of add_contraction and         *)
(* remove_contraction on an engine built from "it's" and "y'all": keys     *)
(* with and without apostrophe, a key that is there with another           *)
(* expansion, keys shorter and not shorter than the registered one, the    *)
(* empty expansion, a key that is absent.                                  *)
(***************************************************************************)
i_s        == <<"i", "'", "s">>
a_b        == <<"a", "'", "b">>
apostrophe == <<"'">>

MaxMutCalls == 3

MutAdds ==
  { << its, it_has >>, << i_s, it_is >>, << Tis, It_is >>, << a_b, empty >>,
    << gonna, going_to >>, << goinT, going >>, << apostrophe, x >> }

MutRemoves == { its, i_s, a_b, gonna, yall, x }

InitMut ==
  InitEngine(Construct(StandardApi, << >>, << >>, FALSE, FALSE), DefaultCacheSize)

MutAdd == \E a \in MutAdds : StartAdd(Caller, a[1], a[2], MaxMutCalls)

MutRemove == \E k \in MutRemoves : StartRemove(Caller, k, MaxMutCalls)

\* the steps of the calls that SpecMut makes
MutStep(th) ==
  \/ Acquire(th) \/ AddPut(th) \/ AddPutAlt(th) \/ AddReverse(th)
  \/ RemoveGet(th) \/ RemovePop(th) \/ RemovePopAlt(th) \/ RemoveReverse(th)
  \/ ClearPattern(th) \/ ClearReversePattern(th) \/ ClearFixCache(th)
  \/ ClearContractCache(th) \/ Release(th)

NextMut == MutAdd \/ MutRemove \/ MutStep(Caller) \/ Return(Caller, TRUE)

SpecMut == InitMut /\ [][NextMut]_vars

\* a call of method op that has come to its return
Returns(op) == frames[Caller].pc = "return" /\ frames[Caller].op = op

\* C23: add_contraction(key, expansion) changes the reverse table only when
\* the key holds an apostrophe and the lower-cased expansion has no entry or
\* the key is shorter than the contraction registered for it, and the change
\* is then that the lower-cased expansion maps to the lower-cased key; a key
\* without apostrophe, and a key that is not shorter than the registered
\* contraction, leave the reverse table as it was.
C23_AddReverseFrame ==
  Returns("add_contraction") =>
    LET f  == frames[Caller]
        k  == f.contraction_lower
        e  == Lower(f.expansion)
        rb == f.before.reverse_dict
        free == ~ Has(rb, e) \/ Len(k) < Len(rb[e])
    IN  /\ ~ f.raised
        /\ reverse_dict # rb =>
             /\ Contains(k, "'") /\ free
             /\ reverse_dict = Put(rb, e, k)
        /\ ~ Contains(k, "'") \/ ~ free => reverse_dict = rb
        /\ Contains(k, "'") /\ Len(k) > 1 /\ free => reverse_dict = Put(rb, e, k)

\* after add_contraction("i's", "it is") on a table that registers "it's"
\* for "it is", the shorter key is the registered one
C23_Witness ==
  LET f == frames[Caller]
  IN  /\ Returns("add_contraction")
      /\ f.contraction_lower = i_s
      /\ Has(f.before.reverse_dict, it_is) /\ f.before.reverse_dict[it_is] = its
      /\ reverse_dict[it_is] = i_s

\* C24: remove_contraction(key) removes the reverse entry of the expansion
\* that the merged table holds for key exactly when key is the contraction
\* registered for that expansion, and leaves every other reverse entry as it
\* was; for a key that the merged table does not hold, both tables stay as
\* they were and nothing is raised.
C24_RemoveReverseFrame ==
  Returns("remove_contraction") =>
    LET f  == frames[Caller]
        k  == f.contraction_lower
        cb == f.before.combined_dict
        rb == f.before.reverse_dict
    IN  /\ ~ f.raised
        /\ IF Has(cb, k)
           THEN LET e == Lower(cb[k])
                IN  reverse_dict = IF Has(rb, e) /\ rb[e] = k THEN Pop(rb, e) ELSE rb
           ELSE combined_dict = cb /\ reverse_dict = rb

\* C26: after construction and after every add_contraction and
\* remove_contraction, each entry of the reverse table, expansion e to
\* contraction c, has c as a key of the merged table, with an expansion that
\* is e in lower case.
C26_ReverseEntriesInMerged ==
  Quiescent =>
    \A e \in DOMAIN reverse_dict :
      /\ Has(combined_dict, reverse_dict[e])
      /\ Lower(combined_dict[reverse_dict[e]]) = e

\* C27: add_contraction(k, e) for a key k that the merged table does not
\* hold, followed by remove_contraction(k), leaves the merged table and the
\* reverse table as they were before the add.
C27_AddRemoveRestores ==
  Returns("remove_contraction") /\ Len(hist) > 0 =>
    LET f    == frames[Caller]
        last == hist[Len(hist)]
    IN  /\ last.op = "add_contraction"
        /\ last.arg = f.contraction_lower
        /\ ~ Has(last.before.combined_dict, last.arg)
        => Tables(combined_dict, reverse_dict) = last.before

(***************************************************************************)
(* SpecTwo: a process with two engines, the default engine of the package  *)
(* (all sources) and a second one built without the slang source, as the   *)
(* package functions build one when a flag is off.  One caller calls fix,  *)
(* contract, preview, add_contraction and remove_contraction, one call at  *)
(* a time, on either engine.                                               *)
(***************************************************************************)
SecondInstance == "second"

Instances == { DefaultInstance, SecondInstance }

y_its == <<"y", " ", "i", "t", "'", "s">>

MaxTwoCalls == 3

TwoFixTexts == { y_its }

TwoContractTexts == { it_is }

TwoPreviewTexts == { y_its }

TwoAdds == { << its, it_has >>, << y, yes_or_no >> }

TwoRemoves == { its }

\* the attributes of an engine between two calls
Attributes(tabs) ==
  [ combined_dict |-> tabs.combined_dict, reverse_dict |-> tabs.reverse_dict,
    _pattern |-> NoPattern, _reverse_pattern |-> NoPattern ]

InitTwo ==
  LET default == Construct(StandardApi, << >>, SlangApi, FALSE, TRUE)
      second  == Construct(StandardApi, << >>, SlangApi, FALSE, FALSE)
  IN  /\ combined_dict = default.combined_dict
      /\ reverse_dict = default.reverse_dict
      /\ _pattern = NoPattern
      /\ _reverse_pattern = NoPattern
      /\ fix_cache = << >>
      /\ contract_cache = << >>
      /\ _lock = 0
      /\ cache_size = DefaultCacheSize
      /\ frames = [ th \in Threads |-> IdleFrame ]
      /\ calls = 0
      /\ serial = default
      /\ hist = << >>
      /\ self = DefaultInstance
      /\ others = [ i \in { SecondInstance } |-> Attributes(second) ]

\* the caller turns to engine i: the next calls are calls of its methods
UseInstance(i) ==
  /\ Quiescent
  /\ i \in DOMAIN others
  /\ self' = i
  /\ combined_dict' = others[i].combined_dict
  /\ reverse_dict' = others[i].reverse_dict
  /\ _pattern' = others[i]._pattern
  /\ _reverse_pattern' = others[i]._reverse_pattern
  /\ others' = [ j \in (DOMAIN others \ { i }) \cup { self } |->
                   IF j = self
                   THEN [ combined_dict |-> combined_dict,
                          reverse_dict |-> reverse_dict,
                          _pattern |-> _pattern,
                          _reverse_pattern |-> _reverse_pattern ]
                   ELSE others[j] ]
  /\ UNCHANGED << fix_cache, contract_cache, _lock, cache_size, frames, calls,
                  serial, hist >>

TwoUse == \E i \in Instances : UseInstance(i)

TwoFix == \E t \in TwoFixTexts : StartFix(Caller, t, MaxTwoCalls)

TwoContract == \E t \in TwoContractTexts : StartContract(Caller, t, MaxTwoCalls)

TwoPreview == \E t \in TwoPreviewTexts : StartPreview(Caller, t, 1, MaxTwoCalls)

TwoAdd == \E a \in TwoAdds : StartAdd(Caller, a[1], a[2], MaxTwoCalls)

TwoRemove == \E k \in TwoRemoves : StartRemove(Caller, k, MaxTwoCalls)

NextTwo ==
  \/ TwoUse \/ TwoFix \/ TwoContract \/ TwoPreview \/ TwoAdd \/ TwoRemove
  \/ Step(Caller)
  \/ Return(Caller, FALSE)

SpecTwo == InitTwo /\ [][NextTwo]_vars

\* the tables of engine i
TablesOf(i) ==
  IF i = self THEN Tables(combined_dict, reverse_dict)
  ELSE Tables(others[i].combined_dict, others[i].reverse_dict)

\* a read returns what the scan over the tables of its own engine gives
OwnTablesDecide ==
  LET f == frames[Caller]
  IN  f.pc = "return" =>
        /\ f.op = "fix" => Outcome(f) = FixOutcome(combined_dict, f.text)
        /\ f.op = "contract" => Outcome(f) = ContractOutcome(reverse_dict, f.text)
        /\ f.op = "preview" =>
             f.res = PreviewScan(CompilePattern(DOMAIN combined_dict), combined_dict,
                                 f.text, f.context_size)

\* a step changes the tables of no engine but the one that is being called,
\* and those only in a mutation
OwnTablesChange ==
  \A i \in Instances :
    TablesOf(i)' # TablesOf(i) =>
      /\ i = self /\ self' = self
      /\ frames[Caller].op \in MutationOps

\* C30: the engines are isolated.  Whatever was called on the other engine,
\* and whatever the caches of the class hold for it, fix, contract and
\* preview on an engine return what the scan over the tables of that engine
\* gives, and add_contraction and remove_contraction change the tables of the
\* engine they are called on only, although they flush the caches for all.
C30_InstancesIsolated == [] OwnTablesDecide /\ [][OwnTablesChange]_vars

\* fix("y it's") returns on the second engine while the cache of the class
\* holds another result for the same text, memoized for the default engine
C30_Witness ==
  LET f == frames[Caller]
  IN  /\ f.pc = "return" /\ f.op = "fix"
      /\ self = SecondInstance
      /\ \E i \in DOMAIN fix_cache :
           /\ fix_cache[i].self = DefaultInstance
           /\ fix_cache[i].text = f.text
           /\ fix_cache[i].res # f.res

====
